---- MODULE Spec2Model ----
\* Verification model of the Tetris rules engine (pkg/piece, pkg/board,
\* pkg/game).  Times are in milliseconds.  A board cell is modelled by its
\* colour string; the Empty flag of board.Cell is true exactly when the
\* colour is ColorEmpty (board.New / Board.SetCell are the only writers).
EXTENDS Integers, Sequences, FiniteSets, TLC

VARIABLES game, now, last, steps, clear, server, heap, client, locks, bag

vars == <<game, now, last, steps, clear, server, heap, client, locks, bag>>

\* ---------------------------------------------------------------- piece
TypeI == 0
TypeO == 1
TypeT == 2
TypeS == 3
TypeZ == 4
TypeJ == 5
TypeL == 6

AllTypes == {TypeI, TypeO, TypeT, TypeS, TypeZ, TypeJ, TypeL}

ColorEmpty == ""

shapes ==
    [t \in AllTypes |->
        CASE t = TypeI -> << <<1, 1, 1, 1>> >>
          [] t = TypeO -> << <<1, 1>>, <<1, 1>> >>
          [] t = TypeT -> << <<0, 1, 0>>, <<1, 1, 1>> >>
          [] t = TypeS -> << <<0, 1, 1>>, <<1, 1, 0>> >>
          [] t = TypeZ -> << <<1, 1, 0>>, <<0, 1, 1>> >>
          [] t = TypeJ -> << <<1, 0, 0>>, <<1, 1, 1>> >>
          [] OTHER     -> << <<0, 0, 1>>, <<1, 1, 1>> >>]

colors ==
    [t \in AllTypes |->
        CASE t = TypeI -> "#00FFFF"
          [] t = TypeO -> "#FFFF00"
          [] t = TypeT -> "#800080"
          [] t = TypeS -> "#00FF00"
          [] t = TypeZ -> "#FF0000"
          [] t = TypeJ -> "#0000FF"
          [] OTHER     -> "#FFA500"]

\* the nil *piece.Piece
NilPiece == [Type |-> -1, Color |-> ColorEmpty, X |-> 0, Y |-> 0, Rotation |-> 0]

\* piece.New
NewPiece(t) == [Type |-> t, Color |-> colors[t], X |-> 3, Y |-> 0, Rotation |-> 0]

\* Shape.Height / Shape.Width
ShapeHeight(s) == Len(s)
ShapeWidth(s) == IF Len(s) = 0 THEN 0 ELSE Len(s[1])

\* rotated[c][rows-1-r] = shape[r][c]  (0-based in the source, 1-based here)
rotate90(shape) ==
    LET rows == Len(shape)
        cols == Len(shape[1])
    IN  [c \in 1..cols |-> [j \in 1..rows |-> shape[rows + 1 - j][c]]]

RECURSIVE rotate(_, _)
rotate(shape, times) ==
    IF times <= 0 THEN shape ELSE rotate90(rotate(shape, times - 1))

GetShape(p) == rotate(shapes[p.Type], p.Rotation)

\* ---------------------------------------------------------------- board
Width == 10
Height == 20

\* board.New
NewBoard == [y \in 0..(Height - 1) |-> [x \in 0..(Width - 1) |-> ColorEmpty]]

isValidPosition(x, y) == x >= 0 /\ x < Width /\ y >= 0 /\ y < Height

IsEmpty(b, x, y) == IF ~isValidPosition(x, y) THEN FALSE ELSE b[y][x] = ColorEmpty

IsOccupied(b, x, y) == ~IsEmpty(b, x, y)

\* the filled cells of a shape placed at (x, y), as board coordinates
ShapeCells(x, y, shape) ==
    {<<x + c - 1, y + r - 1>> : <<r, c>> \in
        {rc \in (1..ShapeHeight(shape)) \X (1..ShapeWidth(shape)) : shape[rc[1]][rc[2]] = 1}}

CheckCollision(b, x, y, shape) ==
    \E xy \in ShapeCells(x, y, shape) :
        ~isValidPosition(xy[1], xy[2]) \/ IsOccupied(b, xy[1], xy[2])

\* Board.LockPiece: SetCell on every filled cell; the first out-of-bounds cell
\* (row-major order) aborts the loop, leaving the earlier cells written.
LockPiece(b, p) ==
    LET shape == GetShape(p)
        w == ShapeWidth(shape)
        idx(r, c) == (r - 1) * w + c
        cellsRC == {rc \in (1..ShapeHeight(shape)) \X (1..w) : shape[rc[1]][rc[2]] = 1}
        bad == {rc \in cellsRC : ~isValidPosition(p.X + rc[2] - 1, p.Y + rc[1] - 1)}
        written == {rc \in cellsRC : \A q \in bad : idx(rc[1], rc[2]) < idx(q[1], q[2])}
        at == {<<p.X + rc[2] - 1, p.Y + rc[1] - 1>> : rc \in written}
    IN  [y \in 0..(Height - 1) |-> [x \in 0..(Width - 1) |->
            IF <<x, y>> \in at THEN p.Color ELSE b[y][x]]]

isLineComplete(b, y) == \A x \in 0..(Width - 1) : ~IsEmpty(b, x, y)

removeLine(b, y) ==
    [row \in 0..(Height - 1) |->
        IF row = 0 THEN [x \in 0..(Width - 1) |-> ColorEmpty]
        ELSE IF row <= y THEN b[row - 1]
        ELSE b[row]]

\* mutant: after a removal the loop moves on without looking at row y again
ClearIter_NoRecheck(st) ==
    IF isLineComplete(st.b, st.y)
    THEN [b |-> removeLine(st.b, st.y), y |-> st.y - 1, n |-> st.n + 1]
    ELSE [b |-> st.b, y |-> st.y - 1, n |-> st.n]

\* one iteration of the for loop of Board.ClearLines; st = [b, y, n]
ClearIter(st) ==
    IF isLineComplete(st.b, st.y)
    THEN [b |-> removeLine(st.b, st.y), y |-> st.y, n |-> st.n + 1]
    ELSE [b |-> st.b, y |-> st.y - 1, n |-> st.n]

RECURSIVE ClearLoop(_)
ClearLoop(st) == IF st.y >= 0 THEN ClearLoop(ClearIter(st)) ELSE st

\* Board.ClearLines: the board afterwards and the returned count
ClearLines(b) ==
    LET st == ClearLoop([b |-> b, y |-> Height - 1, n |-> 0])
    IN  [board |-> st.b, ret |-> st.n]

\* ------------------------------------------------------ piece kinematics
\* The collision predicate handed to the Piece methods is always the closure
\* func(x, y, shape) { return g.board.CheckCollision(x, y, shape) }; the
\* operators below take the board it is bound to.

\* mutant: the two-cell kicks of the I piece come before the one-cell kicks
getWallKicks_WideFirst(t, rotation) ==
    IF t = TypeI
    THEN << <<-2, 0>>, <<2, 0>>, <<-1, 0>>, <<1, 0>>,
            <<-1, -1>>, <<1, -1>>, <<-1, 1>>, <<1, 1>> >>
    ELSE << <<-1, 0>>, <<1, 0>>, <<0, -1>> >>

getWallKicks(t, rotation) ==
    IF t = TypeI
    THEN << <<-1, 0>>, <<1, 0>>, <<-2, 0>>, <<2, 0>>,
            <<-1, -1>>, <<1, -1>>, <<-1, 1>>, <<1, 1>> >>
    ELSE << <<-1, 0>>, <<1, 0>>, <<0, -1>> >>

\* mutant: a wall kick adopts the rotation but not the offset
RECURSIVE KickLoop_KeepsPosition(_, _, _, _, _, _)
KickLoop_KeepsPosition(p, b, kicks, i, newShape, newRotation) ==
    IF i > Len(kicks) THEN [p |-> p, ret |-> FALSE]
    ELSE IF ~CheckCollision(b, p.X + kicks[i][1], p.Y + kicks[i][2], newShape)
    THEN [p |-> [p EXCEPT !.Rotation = newRotation], ret |-> TRUE]
    ELSE KickLoop_KeepsPosition(p, b, kicks, i + 1, newShape, newRotation)

\* the wall-kick loop of Piece.Rotate, from the i-th kick on
RECURSIVE KickLoop(_, _, _, _, _, _)
KickLoop(p, b, kicks, i, newShape, newRotation) ==
    IF i > Len(kicks) THEN [p |-> p, ret |-> FALSE]
    ELSE
        LET newX == p.X + kicks[i][1]
            newY == p.Y + kicks[i][2]
        IN  IF ~CheckCollision(b, newX, newY, newShape)
            THEN [p |-> [p EXCEPT !.X = newX, !.Y = newY, !.Rotation = newRotation],
                  ret |-> TRUE]
            ELSE KickLoop(p, b, kicks, i + 1, newShape, newRotation)

\* mutant: the O piece is turned like the others (its shape never collides)
PieceRotate_TurnsO(p, b) ==
    [p |-> [p EXCEPT !.Rotation = (p.Rotation + 1) % 4], ret |-> TRUE]

\* Piece.Rotate: [p |-> the piece afterwards, ret |-> the returned bool]
PieceRotate(p, b) ==
    IF p.Type = TypeO THEN [p |-> p, ret |-> TRUE]
    ELSE
        LET newRotation == (p.Rotation + 1) % 4
            newShape == rotate(shapes[p.Type], newRotation)
        IN  IF ~CheckCollision(b, p.X, p.Y, newShape)
            THEN [p |-> [p EXCEPT !.Rotation = newRotation], ret |-> TRUE]
            ELSE KickLoop(p, b, getWallKicks(p.Type, newRotation), 1,
                          newShape, newRotation)

PieceMoveLeft(p, b) ==
    IF ~CheckCollision(b, p.X - 1, p.Y, GetShape(p))
    THEN [p |-> [p EXCEPT !.X = p.X - 1], ret |-> TRUE]
    ELSE [p |-> p, ret |-> FALSE]

PieceMoveRight(p, b) ==
    IF ~CheckCollision(b, p.X + 1, p.Y, GetShape(p))
    THEN [p |-> [p EXCEPT !.X = p.X + 1], ret |-> TRUE]
    ELSE [p |-> p, ret |-> FALSE]

PieceMoveDown(p, b) ==
    IF ~CheckCollision(b, p.X, p.Y + 1, GetShape(p))
    THEN [p |-> [p EXCEPT !.Y = p.Y + 1], ret |-> TRUE]
    ELSE [p |-> p, ret |-> FALSE]

\* the for loop of Piece.HardDrop
RECURSIVE HardDropLoop(_, _, _)
HardDropLoop(p, b, dropDistance) ==
    IF ~CheckCollision(b, p.X, p.Y + 1, GetShape(p))
    THEN HardDropLoop([p EXCEPT !.Y = p.Y + 1], b, dropDistance + 1)
    ELSE [p |-> p, ret |-> dropDistance]

PieceHardDrop(p, b) == HardDropLoop(p, b, 0)

\* ------------------------------------------------------------ generator
\* The 7-bag: the pending kinds of the current block, head first.  Next
\* returns the head and refills with a freshly shuffled permutation of the
\* seven kinds when the block is used up; sh is the outcome of that shuffle.
NewGenerator == [pending |-> << >>]

\* Generator.Next when a refill, if one happens, shuffles the kinds into sh
GenNext(gen, sh) ==
    LET pend == IF gen.pending = << >> THEN sh ELSE gen.pending
    IN  [gen |-> [pending |-> Tail(pend)], piece |-> NewPiece(Head(pend))]

\* ----------------------------------------------------------------- game
StatePlaying == 0
StatePaused == 1
StateGameOver == 2

calculateDropInterval(level) ==
    LET ms == 1000 - (level - 1) * 100
    IN  IF ms < 100 THEN 100 ELSE ms

\* mutant: the spawn draws from the generator and passes the shown piece over
spawnPiece_Redraw(g, sh) ==
    LET d == GenNext(g.generator, sh)
        g1 == [g EXCEPT !.current = d.piece, !.generator = d.gen]
    IN  IF CheckCollision(g1.board, g1.current.X, g1.current.Y, GetShape(g1.current))
        THEN [g1 EXCEPT !.state = StateGameOver]
        ELSE g1

\* mutant: the spawn collision check is missing
spawnPiece_NoGameOver(g, sh) ==
    IF g.next # NilPiece
    THEN [g EXCEPT !.current = g.next]
    ELSE LET d == GenNext(g.generator, sh)
         IN  [g EXCEPT !.current = d.piece, !.generator = d.gen]

\* Game.spawnPiece; sh is the shuffle of a refill, should Next refill
spawnPiece(g, sh) ==
    LET g1 == IF g.next # NilPiece
              THEN [g EXCEPT !.current = g.next]
              ELSE LET d == GenNext(g.generator, sh)
                   IN  [g EXCEPT !.current = d.piece, !.generator = d.gen]
    IN  IF CheckCollision(g1.board, g1.current.X, g1.current.Y, GetShape(g1.current))
        THEN [g1 EXCEPT !.state = StateGameOver]
        ELSE g1

\* Game.prepareNext
prepareNext(g, sh) ==
    LET d == GenNext(g.generator, sh)
    IN  [g EXCEPT !.next = d.piece, !.generator = d.gen]

scoreMultiplier(linesCleared) ==
    CASE linesCleared = 1 -> 100
      [] linesCleared = 2 -> 300
      [] linesCleared = 3 -> 500
      [] linesCleared = 4 -> 800
      [] OTHER -> 0

\* mutant: the line-clear score uses the level after the update
updateScore_NewLevel(g, linesCleared) ==
    IF linesCleared = 0 THEN g
    ELSE
        LET lines1 == g.lines + linesCleared
            newLevel == (lines1 \div 10) + 1
            score1 == g.score + scoreMultiplier(linesCleared) * newLevel
        IN  IF newLevel > g.level
            THEN [g EXCEPT !.score = score1, !.lines = lines1, !.level = newLevel,
                           !.dropInterval = calculateDropInterval(newLevel)]
            ELSE [g EXCEPT !.score = score1, !.lines = lines1]

\* mutant: a level-up leaves the drop interval as it was
updateScore_StaleInterval(g, linesCleared) ==
    IF linesCleared = 0 THEN g
    ELSE
        LET score1 == g.score + scoreMultiplier(linesCleared) * g.level
            lines1 == g.lines + linesCleared
            newLevel == (lines1 \div 10) + 1
        IN  IF newLevel > g.level
            THEN [g EXCEPT !.score = score1, !.lines = lines1, !.level = newLevel]
            ELSE [g EXCEPT !.score = score1, !.lines = lines1]

\* Game.updateScore
updateScore(g, linesCleared) ==
    IF linesCleared = 0 THEN g
    ELSE
        LET score1 == g.score + scoreMultiplier(linesCleared) * g.level
            lines1 == g.lines + linesCleared
            newLevel == (lines1 \div 10) + 1
        IN  IF newLevel > g.level
            THEN [g EXCEPT !.score = score1, !.lines = lines1, !.level = newLevel,
                           !.dropInterval = calculateDropInterval(newLevel)]
            ELSE [g EXCEPT !.score = score1, !.lines = lines1]

\* Game.lockAndSpawnLocked
lockAndSpawnLocked(g, sh) ==
    LET locked == LockPiece(g.board, g.current)
        cleared == ClearLines(locked)
        g1 == updateScore([g EXCEPT !.board = cleared.board], cleared.ret)
    IN  prepareNext(spawnPiece(g1, sh), sh)

\* game.New at wall-clock time t
New(sh, t) ==
    LET g0 == [board |-> NewBoard, generator |-> NewGenerator,
               current |-> NilPiece, next |-> NilPiece,
               state |-> StatePlaying, score |-> 0, level |-> 1, lines |-> 0,
               dropInterval |-> calculateDropInterval(1), lastDrop |-> t]
    IN  prepareNext(spawnPiece(g0, sh), sh)

\* mutant: MoveLeft without the state check
MoveLeft_NoStateCheck(g) ==
    LET r == PieceMoveLeft(g.current, g.board)
    IN  [g |-> [g EXCEPT !.current = r.p], ret |-> r.ret]

\* The engine operations: [g |-> the game afterwards, ret |-> return value]
MoveLeft(g) ==
    IF g.state # StatePlaying THEN [g |-> g, ret |-> FALSE]
    ELSE LET r == PieceMoveLeft(g.current, g.board)
         IN  [g |-> [g EXCEPT !.current = r.p], ret |-> r.ret]

MoveRight(g) ==
    IF g.state # StatePlaying THEN [g |-> g, ret |-> FALSE]
    ELSE LET r == PieceMoveRight(g.current, g.board)
         IN  [g |-> [g EXCEPT !.current = r.p], ret |-> r.ret]

MoveDown(g, sh) ==
    IF g.state # StatePlaying THEN [g |-> g, ret |-> FALSE]
    ELSE LET r == PieceMoveDown(g.current, g.board)
             g1 == [g EXCEPT !.current = r.p]
         IN  IF ~r.ret THEN [g |-> lockAndSpawnLocked(g1, sh), ret |-> FALSE]
             ELSE [g |-> g1, ret |-> TRUE]

\* mutant: the drop bonus is not multiplied by the level
HardDrop_FlatBonus(g, sh) ==
    IF g.state # StatePlaying THEN [g |-> g, ret |-> 0]
    ELSE LET r == PieceHardDrop(g.current, g.board)
             g1 == [g EXCEPT !.current = r.p, !.score = g.score + r.ret]
         IN  [g |-> lockAndSpawnLocked(g1, sh), ret |-> r.ret]

HardDrop(g, sh) ==
    IF g.state # StatePlaying THEN [g |-> g, ret |-> 0]
    ELSE LET r == PieceHardDrop(g.current, g.board)
             g1 == [g EXCEPT !.current = r.p, !.score = g.score + r.ret * g.level]
         IN  [g |-> lockAndSpawnLocked(g1, sh), ret |-> r.ret]

Rotate(g) ==
    IF g.state # StatePlaying THEN [g |-> g, ret |-> FALSE]
    ELSE LET r == PieceRotate(g.current, g.board)
         IN  [g |-> [g EXCEPT !.current = r.p], ret |-> r.ret]

Pause(g) == IF g.state = StatePlaying THEN [g EXCEPT !.state = StatePaused] ELSE g

\* mutant: Resume restarts the drop timer and leaves the engine paused
Resume_StaysPaused(g, t) ==
    IF g.state = StatePaused THEN [g EXCEPT !.lastDrop = t] ELSE g

\* mutant: Resume acts on every state but Playing
Resume_FromAnyState(g, t) ==
    IF g.state # StatePlaying THEN [g EXCEPT !.state = StatePlaying, !.lastDrop = t] ELSE g

\* Game.Resume when time.Now() returns t
Resume(g, t) ==
    IF g.state = StatePaused THEN [g EXCEPT !.state = StatePlaying, !.lastDrop = t] ELSE g

\* mutant: the tick is due only strictly after the interval
Update_StrictlyLater(g, t, sh) ==
    IF g.state # StatePlaying THEN [g |-> g, ret |-> FALSE]
    ELSE IF t - g.lastDrop > g.dropInterval
    THEN LET g1 == [g EXCEPT !.lastDrop = t]
             r == PieceMoveDown(g1.current, g1.board)
             g2 == [g1 EXCEPT !.current = r.p]
         IN  [g |-> IF ~r.ret THEN lockAndSpawnLocked(g2, sh) ELSE g2, ret |-> TRUE]
    ELSE [g |-> g, ret |-> FALSE]

\* Game.Update when time.Now() returns t
Update(g, t, sh) ==
    IF g.state # StatePlaying THEN [g |-> g, ret |-> FALSE]
    ELSE IF t - g.lastDrop >= g.dropInterval
    THEN LET g1 == [g EXCEPT !.lastDrop = t]
             r == PieceMoveDown(g1.current, g1.board)
             g2 == [g1 EXCEPT !.current = r.p]
         IN  [g |-> IF ~r.ret THEN lockAndSpawnLocked(g2, sh) ELSE g2, ret |-> TRUE]
    ELSE [g |-> g, ret |-> FALSE]

\* ------------------------------------------------------ recorded games
\* Start states other than a fresh game are obtained by replaying a recorded
\* game through the engine operations above: Ops are the commands issued
\* ("L" MoveLeft, "R" MoveRight, "T" Rotate, "H" HardDrop) and Shuffles the
\* successive outcomes of the generator's refills.
ScriptAOps ==
    << "R", "R", "H", "R", "R", "R", "H", "L", "L", "L", "H", "T", "R", "R",
       "R", "R", "R", "H", "T", "R", "H", "T", "T", "R", "R", "R", "R", "H",
       "T", "T", "R", "H", "T", "T", "T", "L", "L", "H", "T", "L", "L", "L",
       "H", "T", "H", "R", "R", "H", "L", "H", "R", "R", "R", "R", "H", "R",
       "R", "R", "H", "L", "L", "L", "H", "T", "T", "H", "L", "L", "L", "H",
       "R", "R", "R", "R", "H", "L", "L", "L", "H", "R", "H", "T", "R", "R",
       "R", "R", "R", "H", "R", "R", "H", "L", "L", "L", "H", "R", "R", "H",
       "L", "L", "L", "H", "T", "T", "R", "R", "R", "R", "H", "L", "H" >>

ScriptAShuffles ==
    << << TypeI, TypeO, TypeT, TypeS, TypeZ, TypeJ, TypeL >>,
       << TypeT, TypeJ, TypeI, TypeO, TypeS, TypeL, TypeZ >>,
       << TypeL, TypeT, TypeO, TypeZ, TypeI, TypeJ, TypeS >>,
       << TypeL, TypeI, TypeO, TypeT, TypeJ, TypeZ, TypeS >>,
       << TypeI, TypeO, TypeT, TypeS, TypeZ, TypeJ, TypeL >> >>

ScriptBOps ==
    << "T", "H", "T", "H", "T", "H", "T", "H", "T", "H", "T", "H", "T", "H" >>

ScriptBShuffles ==
    << << TypeI, TypeO, TypeT, TypeS, TypeZ, TypeJ, TypeL >>,
       << TypeI, TypeO, TypeT, TypeS, TypeZ, TypeJ, TypeL >> >>

ScriptCOps ==
    << "L", "L", "L", "H", "R", "H", "T", "L", "H", "T", "R", "R", "R", "H",
       "T", "R", "H", "T", "T", "T", "R", "R", "R", "R", "R", "H", "T", "L",
       "L", "L", "H", "T", "T", "T", "R", "R", "R", "R", "H" >>

ScriptCShuffles ==
    << << TypeO, TypeT, TypeI, TypeS, TypeZ, TypeJ, TypeL >>,
       << TypeT, TypeI, TypeO, TypeS, TypeZ, TypeJ, TypeL >> >>

ScriptDOps ==
    << "L", "L", "L", "H", "R", "R", "R", "H", "T", "R", "R", "R", "R", "R",
       "H", "T", "R", "R", "H", "T", "R", "H", "T", "T", "T", "L", "L", "H" >>

ScriptDShuffles ==
    << << TypeO, TypeT, TypeS, TypeZ, TypeJ, TypeL, TypeI >>,
       << TypeI, TypeO, TypeT, TypeS, TypeZ, TypeJ, TypeL >> >>

ScriptEOps == << "T", "R", "R", "R", "H", "T", "T", "R", "H", "T", "H" >>

ScriptEShuffles == << << TypeZ, TypeJ, TypeT, TypeI, TypeO, TypeL, TypeS >> >>

Scripts ==
    << [ops |-> ScriptAOps, shuffles |-> ScriptAShuffles],
       [ops |-> ScriptBOps, shuffles |-> ScriptBShuffles],
       [ops |-> ScriptCOps, shuffles |-> ScriptCShuffles],
       [ops |-> ScriptDOps, shuffles |-> ScriptDShuffles],
       [ops |-> ScriptEOps, shuffles |-> ScriptEShuffles] >>

\* the prefixes (script, number of commands) the model starts from
StartPoints ==
    { <<1, 43>>, <<1, 109>>, <<2, 12>>, <<2, 14>>,
      <<3, 39>>, <<4, 28>> }

\* one command of a script applied to s = [g |-> game, si |-> refills so far]
ReplayStep(sc, s, o) ==
    CASE o = "L" -> [s EXCEPT !.g = MoveLeft(s.g).g]
      [] o = "R" -> [s EXCEPT !.g = MoveRight(s.g).g]
      [] o = "T" -> [s EXCEPT !.g = Rotate(s.g).g]
      [] OTHER   ->
           IF s.g.generator.pending = << >>
           THEN [g |-> HardDrop(s.g, sc.shuffles[s.si + 1]).g, si |-> s.si + 1]
           ELSE [s EXCEPT !.g = HardDrop(s.g, << >>).g]

\* commands i..n of the script applied to s in order, as long as the game
\* is on (the range is halved to keep the evaluation shallow)
RECURSIVE ReplayFrom(_, _, _, _)
ReplayFrom(sc, s, i, n) ==
    IF i > n \/ s.g.state # StatePlaying THEN s
    ELSE IF i = n THEN ReplayStep(sc, s, sc.ops[i])
    ELSE LET mid == (i + n) \div 2
         IN  ReplayFrom(sc, ReplayFrom(sc, s, i, mid), mid + 1, n)

\* the game after the first n commands of the script
ReplayTo(sc, n) == ReplayFrom(sc, [g |-> New(sc.shuffles[1], 0), si |-> 1], 1, n).g

\* ------------------------------------------------------- specification
MaxSteps == 3

\* the amounts of wall-clock time that pass between two calls
ClockSteps == {100, 900, 1000}

\* the outcomes of a shuffle that the model draws from
Shuffles ==
    { << TypeI, TypeO, TypeT, TypeS, TypeZ, TypeJ, TypeL >>,
      << TypeO, TypeI, TypeL, TypeJ, TypeZ, TypeS, TypeT >>,
      << TypeT, TypeL, TypeI, TypeZ, TypeO, TypeJ, TypeS >> }

\* the shuffles the next call of Generator.Next can make
RefillChoices(gen) == IF gen.pending = << >> THEN Shuffles ELSE { << >> }

\* last: the operation performed last, what it returned (ok: the bool,
\* dist: HardDrop's int) and where the current piece was when it was called
Called(op, ok, dist) ==
    [op |-> op, ok |-> ok, dist |-> dist, px |-> game.current.X, py |-> game.current.Y]

NoOp == [op |-> "New", ok |-> FALSE, dist |-> 0, px |-> 3, py |-> 0]

\* clear: a call of Board.ClearLines in progress on a board of its own (pc:
\* "idle" no call, "loop" inside the for loop, "done" returned), b0 the board
\* it was called on, b the board now, y the loop variable, n the count
ClearIdle == [pc |-> "idle", b0 |-> NewBoard, b |-> NewBoard, y |-> Height - 1, n |-> 0]

\* server: the WebSocket server and its sessions; NoServer when none is run
\* the parts of the state that a specification does not use stay at rest
NoHeap == << >>

NoClient == << >>

NoLocks == << >>

NoBag == << >>

Apart == heap = NoHeap /\ client = NoClient /\ locks = NoLocks /\ bag = NoBag

NoServer == [clients |-> {}, hub |-> 0, down |-> FALSE, crashed |-> FALSE,
             panic |-> "", sessions |-> << >>]

Init ==
    /\ \/ \E sh \in Shuffles : game = New(sh, 0)
       \/ \E sp \in StartPoints : game = ReplayTo(Scripts[sp[1]], sp[2])
    /\ now = 0
    /\ last = NoOp
    /\ steps = 0
    /\ clear = ClearIdle
    /\ Apart
    /\ server = NoServer

DoMoveLeft ==
    /\ steps < MaxSteps
    /\ LET r == MoveLeft(game)
       IN  /\ game' = r.g
           /\ last' = Called("MoveLeft", r.ret, 0)
    /\ steps' = steps + 1
    /\ UNCHANGED <<now, clear, server, heap, client, locks, bag>>

DoMoveRight ==
    /\ steps < MaxSteps
    /\ LET r == MoveRight(game)
       IN  /\ game' = r.g
           /\ last' = Called("MoveRight", r.ret, 0)
    /\ steps' = steps + 1
    /\ UNCHANGED <<now, clear, server, heap, client, locks, bag>>

DoMoveDown ==
    /\ steps < MaxSteps
    /\ \E sh \in RefillChoices(game.generator) :
         LET r == MoveDown(game, sh)
         IN  /\ game' = r.g
             /\ last' = Called("MoveDown", r.ret, 0)
    /\ steps' = steps + 1
    /\ UNCHANGED <<now, clear, server, heap, client, locks, bag>>

DoHardDrop ==
    /\ steps < MaxSteps
    /\ \E sh \in RefillChoices(game.generator) :
         LET r == HardDrop(game, sh)
         IN  /\ game' = r.g
             /\ last' = Called("HardDrop", FALSE, r.ret)
    /\ steps' = steps + 1
    /\ UNCHANGED <<now, clear, server, heap, client, locks, bag>>

DoRotate ==
    /\ steps < MaxSteps
    /\ LET r == Rotate(game)
       IN  /\ game' = r.g
           /\ last' = Called("Rotate", r.ret, 0)
    /\ steps' = steps + 1
    /\ UNCHANGED <<now, clear, server, heap, client, locks, bag>>

DoPause ==
    /\ steps < MaxSteps
    /\ game' = Pause(game)
    /\ last' = Called("Pause", FALSE, 0)
    /\ steps' = steps + 1
    /\ UNCHANGED <<now, clear, server, heap, client, locks, bag>>

DoResume ==
    /\ steps < MaxSteps
    /\ game' = Resume(game, now)
    /\ last' = Called("Resume", FALSE, 0)
    /\ steps' = steps + 1
    /\ UNCHANGED <<now, clear, server, heap, client, locks, bag>>

DoUpdate ==
    /\ steps < MaxSteps
    /\ \E sh \in RefillChoices(game.generator) :
         LET r == Update(game, now, sh)
         IN  /\ game' = r.g
             /\ last' = Called("Update", r.ret, 0)
    /\ steps' = steps + 1
    /\ UNCHANGED <<now, clear, server, heap, client, locks, bag>>

\* wall-clock time passes
ClockAdvance ==
    /\ steps < MaxSteps
    /\ \E dt \in ClockSteps : now' = now + dt
    /\ last' = Called("Clock", FALSE, 0)
    /\ steps' = steps + 1
    /\ UNCHANGED <<game, clear, server, heap, client, locks, bag>>

Next ==
    \/ DoMoveLeft
    \/ DoMoveRight
    \/ DoMoveDown
    \/ DoHardDrop
    \/ DoRotate
    \/ DoPause
    \/ DoResume
    \/ DoUpdate
    \/ ClockAdvance

Spec == Init /\ [][Next]_vars

TypeOK ==
    /\ game.state \in {StatePlaying, StatePaused, StateGameOver}
    /\ steps \in 0..MaxSteps

\* --------------------------------------- rotations anywhere on the board
\* recorded games at a point where a piece has just spawned, one for every
\* kind of piece: <<script, number of commands>>
RotatePoints == { <<5, 11>>, <<5, 5>>, <<2, 2>>, <<2, 4>>, <<2, 6>>, <<2, 8>>, <<2, 12>> }

\* the piece p of the game moved to (x, y) in rotation r
PlacedAt(p, x, y, r) == [p EXCEPT !.X = x, !.Y = y, !.Rotation = r]

\* one of the recorded games, its current piece moved to any place of the
\* board where it fits, in any rotation
InitRotate ==
    /\ \E base \in {ReplayTo(Scripts[rp[1]], rp[2]) : rp \in RotatePoints} :
         \E x \in 0..(Width - 1), y \in 0..(Height - 1), r \in 0..3 :
           LET p == PlacedAt(base.current, x, y, r)
           IN  /\ ~CheckCollision(base.board, x, y, GetShape(p))
               /\ game = [base EXCEPT !.current = p]
    /\ now = 0
    /\ last = NoOp
    /\ steps = 0
    /\ clear = ClearIdle
    /\ Apart
    /\ server = NoServer

NextRotate == DoRotate

SpecRotate == InitRotate /\ [][NextRotate]_vars

\* the same games under every command that moves the piece
NextPiece ==
    \/ DoMoveLeft
    \/ DoMoveRight
    \/ DoMoveDown
    \/ DoRotate

SpecPiece == InitRotate /\ [][NextPiece]_vars

\* ------------------------------------ Board.ClearLines, one iteration a step
MaxRows == 4

\* the rows the boards are made of: empty, complete, one cell short of
\* complete, every other cell filled
RowKinds == {"empty", "full", "short", "comb"}

MakeRow(k) ==
    [x \in 0..(Width - 1) |->
        CASE k = "empty" -> ColorEmpty
          [] k = "full"  -> colors[TypeI]
          [] k = "short" -> IF x < Width - 1 THEN colors[TypeJ] ELSE ColorEmpty
          [] OTHER       -> IF x % 2 = 0 THEN colors[TypeS] ELSE ColorEmpty]

\* the board whose rows top .. top+MaxRows-1 are of the kinds ks[1..MaxRows],
\* the others empty
BoardOf(top, ks) ==
    [y \in 0..(Height - 1) |->
        IF y >= top /\ y < top + MaxRows THEN MakeRow(ks[y - top + 1]) ELSE MakeRow("empty")]

\* where the rows are put: at the top, in the middle, on the floor
ClearOffsets == {0, Height \div 2, Height - MaxRows}

InitClear ==
    /\ \E top \in ClearOffsets, ks \in [1..MaxRows -> RowKinds] :
         LET b == BoardOf(top, ks)
         IN  clear = [pc |-> "loop", b0 |-> b, b |-> b, y |-> Height - 1, n |-> 0]
    /\ game = New(<< TypeI, TypeO, TypeT, TypeS, TypeZ, TypeJ, TypeL >>, 0)
    /\ now = 0
    /\ last = NoOp
    /\ steps = 0
    /\ server = NoServer
    /\ Apart

\* one iteration of the loop: y >= 0 held
ClearStep ==
    /\ clear.pc = "loop"
    /\ clear.y >= 0
    /\ LET st == ClearIter([b |-> clear.b, y |-> clear.y, n |-> clear.n])
       IN  clear' = [clear EXCEPT !.b = st.b, !.y = st.y, !.n = st.n]
    /\ UNCHANGED <<game, now, last, steps, server, heap, client, locks, bag>>

\* the loop is left and the count returned
ClearReturn ==
    /\ clear.pc = "loop"
    /\ clear.y < 0
    /\ clear' = [clear EXCEPT !.pc = "done"]
    /\ UNCHANGED <<game, now, last, steps, server, heap, client, locks, bag>>

NextClear ==
    \/ ClearStep
    \/ ClearReturn

\* the call runs on: it is an ordinary sequential loop
SpecClear == InitClear /\ [][NextClear]_vars /\ WF_vars(NextClear)

\* ------------------------------------------------------------ protocol
\* a client frame: json is false for text that is not a JSON object with a
\* string "type"; type is the value of "type" ("" when the field is missing)
MessageTypes ==
    {"move_left", "move_right", "move_down", "rotate", "hard_drop",
     "toggle_pause", "pause", "resume", "restart", "pong"}

Frame(t) == [json |-> TRUE, type |-> t]
Malformed == [json |-> FALSE, type |-> ""]

\* protocol.ParseControlMessage: [err, type]
ParseControlMessage(data) ==
    IF ~data.json THEN [err |-> TRUE, type |-> ""]
    ELSE IF data.type = "" THEN [err |-> TRUE, type |-> ""]
    ELSE [err |-> FALSE, type |-> data.type]

\* protocol.IsValidControlType
IsValidControlType(t) == t \in MessageTypes

\* State.String
StateString(st) ==
    CASE st = StatePlaying -> "playing"
      [] st = StatePaused -> "paused"
      [] st = StateGameOver -> "gameover"
      [] OTHER -> ""

\* Game.GetStateSnapshot, as the fields of a state frame
GetStateSnapshot(g) ==
    [board |-> g.board, current_piece |-> g.current, next_piece |-> g.next,
     state |-> StateString(g.state), score |-> g.score, level |-> g.level,
     lines |-> g.lines, drop_interval_ms |-> g.dropInterval]

\* the frames the server sends; by names the task that made the frame
NewStateMessage(g, by) == [type |-> "state", by |-> by, data |-> GetStateSnapshot(g)]

NewErrorMessage(err, code, by) ==
    [type |-> "error", by |-> by, data |-> [error |-> err, code |-> code]]

NewPingMessage(t, by) == [type |-> "ping", by |-> by, data |-> [timestamp |-> t \div 1000]]

NewGameOverMessage(g, by) ==
    [type |-> "game_over", by |-> by,
     data |-> [score |-> g.score, level |-> g.level, lines |-> g.lines]]

\* ------------------------------------------------------------- session
PingInterval == 30000
PongTimeout == 60000

\* the capacity of Client.send (256 in the program)
QueueCap == 2

\* a timer that is not running
Stopped == -1

NoFinal == [score |-> -1, level |-> -1, lines |-> -1]

\* the Client made by handleWebSocket at time t with engine g, already
\* registered, its three tasks started; env is what happens to it from
\* outside: frames (the frames its client may send), left (how many more
\* events, frames read, ticker ticks and seconds, it will see), pong (how the
\* client answers a ping: "app", "transport" or "none"), due (pings the
\* client has received and not answered), leaves (whether it may go away)
NewClient(g, t, env) ==
    [conn |-> "open", peer |-> "up", closes |-> << >>,
     send |-> << >>, sendClosed |-> FALSE, game |-> g,
     pingAt |-> t + PingInterval, pingC |-> FALSE,
     timeoutAt |-> t + PongTimeout, timeoutC |-> FALSE,
     readDeadline |-> 0, lastPong |-> t,
     handler |-> "state", reader |-> "start", msg |-> Malformed,
     writer |-> "select", out |-> << >>,
     heartbeat |-> "select", tickC |-> FALSE, env |-> env,
     old |-> << >>, cause |-> "", final |-> NoFinal, heard |-> t, overs |-> 0]

\* bookkeeping for the claims, no field of Client: heard is the time the
\* last pong of either kind arrived (the start of the session before the
\* first); cause names the task whose
\* call has moved the engine into GameOver and which has not yet finished
\* the handler it made the call in, final that engine's score, level, lines;
\* overs counts the game_over frames that went into the queue for the engine
\* the session holds
Caused(g, g2, s2, by) ==
    IF g.state # StateGameOver /\ g2.state = StateGameOver
    THEN [s2 EXCEPT !.cause = by,
                    !.final = [score |-> g2.score, level |-> g2.level, lines |-> g2.lines]]
    ELSE s2

\* c.game is assigned by the reader and read by the ticker without any
\* synchronisation: a read by the ticker that races with the assignment of a
\* restart sees either engine. old holds the engine a restart has replaced
\* while the ticker is inside updateGame, until updateGame returns
TickPcs == {"t_update", "t_state", "t_over", "t_gameover"}

Swapped(s, s2) ==
    IF s2.game # s.game /\ s.msg.type = "restart" /\ s.writer \in TickPcs
    THEN [s2 EXCEPT !.old = <<s.game>>]
    ELSE s2

TickerSees(s) == {s.game} \cup {s.old[i] : i \in 1..Len(s.old)}

\* s2 is s after a call of sendGameOver for engine g
Counted(s, s2, g) ==
    IF Len(s2.send) > Len(s.send) /\ g = s.game THEN [s2 EXCEPT !.overs = @ + 1] ELSE s2

\* s2 is s after the reader's switch: a restart brings an engine for which
\* no game_over frame has been queued
Uncounted(s, s2) == IF s.msg.type = "restart" THEN [s2 EXCEPT !.overs = 0] ELSE s2

Settled(s, by) == IF s.cause = by THEN [s EXCEPT !.cause = "", !.final = NoFinal] ELSE s

\* mutant: a full queue gives up its oldest frame for the new one
TrySend_DropsOldest(c, data) ==
    IF c.sendClosed THEN c
    ELSE IF Len(c.send) >= QueueCap THEN [c EXCEPT !.send = Append(Tail(@), data)]
    ELSE [c EXCEPT !.send = Append(@, data)]

\* select { case c.send <- data: default: } inside a function that recovers:
\* a closed channel panics and the frame is lost, a full one drops the frame
TrySend(c, data) ==
    IF c.sendClosed \/ Len(c.send) >= QueueCap THEN c
    ELSE [c EXCEPT !.send = Append(@, data)]

\* Client.sendState, sendError, sendPing, sendGameOver called by task by
sendState(c, by) == TrySend(c, NewStateMessage(c.game, by))
sendError(c, errMsg, by) == TrySend(c, NewErrorMessage(errMsg, 400, by))
sendPing(c, t, by) == TrySend(c, NewPingMessage(t, by))
sendGameOver(c, by) == TrySend(c, NewGameOverMessage(c.game, by))

\* the session c and the server with session c replaced
Ses(c) == server.sessions[c]
With(c, s) == [server EXCEPT !.sessions[c] = s]
Running(c) == c \in DOMAIN server.sessions /\ ~server.crashed

\* what stays as it is in every step of the server
Rest == UNCHANGED <<game, last, steps, clear>>

\* ---- handleWebSocket, after the tasks are started: the initial state frame
HandlerState(c) ==
    /\ Running(c)
    /\ Ses(c).handler = "state"
    /\ server' = With(c, [sendState(Ses(c), "handler") EXCEPT !.handler = "done"])
    /\ UNCHANGED <<now, heap, client, locks, bag>>
    /\ Rest

\* ---- Client.readPump
\* SetReadDeadline and SetPongHandler before the loop
ReaderStart(c) ==
    /\ Running(c)
    /\ Ses(c).reader = "start"
    /\ server' = With(c, [Ses(c) EXCEPT !.readDeadline = now + PongTimeout,
                                        !.reader = "read"])
    /\ UNCHANGED <<now, heap, client, locks, bag>>
    /\ Rest

\* ReadMessage can return a frame: the transport is open on both sides and
\* the read deadline has not passed
Readable(c) ==
    /\ Ses(c).reader = "read"
    /\ Ses(c).conn = "open"
    /\ Ses(c).peer = "up"
    /\ now < Ses(c).readDeadline

\* ReadMessage returns a control frame of the client
ReaderRead(c) ==
    /\ Running(c)
    /\ Readable(c)
    /\ Ses(c).env.left > 0
    /\ \E m \in Ses(c).env.frames :
         server' = With(c, [Ses(c) EXCEPT !.msg = m, !.reader = "handle",
                                          !.env.left = @ - 1])
    /\ UNCHANGED <<now, heap, client, locks, bag>>
    /\ Rest

\* ReadMessage returns the {"type":"pong"} with which the client answers a ping
ReaderReadPong(c) ==
    /\ Running(c)
    /\ Readable(c)
    /\ Ses(c).env.pong = "app"
    /\ Ses(c).env.due > 0
    /\ server' = With(c, [Ses(c) EXCEPT !.msg = Frame("pong"), !.reader = "handle",
                                        !.env.due = @ - 1, !.env.left = @ - 1,
                                        !.heard = now])
    /\ UNCHANGED <<now, heap, client, locks, bag>>
    /\ Rest

\* inside ReadMessage a transport-level pong arrives: the pong handler runs
ReaderPongHandler(c) ==
    /\ Running(c)
    /\ Readable(c)
    /\ Ses(c).env.pong = "transport"
    /\ Ses(c).env.due > 0
    /\ server' = With(c, [Ses(c) EXCEPT !.readDeadline = now + PongTimeout,
                                        !.lastPong = now,
                                        !.timeoutAt = now + PongTimeout,
                                        !.env.due = @ - 1, !.env.left = @ - 1,
                                        !.heard = now])
    /\ UNCHANGED <<now, heap, client, locks, bag>>
    /\ Rest

\* ReadMessage returns an error: the transport was closed, the client is
\* gone or the read deadline has passed; the loop is left
ReaderFail(c) ==
    /\ Running(c)
    /\ Ses(c).reader = "read"
    /\ \/ Ses(c).conn = "closed"
       \/ Ses(c).peer = "gone"
       \/ now >= Ses(c).readDeadline
    /\ server' = With(c, [Ses(c) EXCEPT !.reader = "unregister"])
    /\ UNCHANGED <<now, heap, client, locks, bag>>
    /\ Rest

\* handleMessage up to the switch: parse, validity, the GameOver guard
ReaderHandle(c) ==
    /\ Running(c)
    /\ Ses(c).reader = "handle"
    /\ LET s == Ses(c)
           r == ParseControlMessage(s.msg)
       IN  server' = With(c,
             IF r.err
             THEN [sendError(s, "Invalid message format", "reader") EXCEPT !.reader = "read"]
             ELSE IF ~IsValidControlType(r.type)
             THEN [sendError(s, "Unknown message type: " \o r.type, "reader")
                     EXCEPT !.reader = "read"]
             ELSE IF s.game.state = StateGameOver /\ r.type \notin {"pong", "restart"}
             THEN [sendError(s, "Game is over", "reader") EXCEPT !.reader = "read"]
             ELSE [s EXCEPT !.reader = "apply"])
    /\ UNCHANGED <<now, heap, client, locks, bag>>
    /\ Rest

\* mutant: the pause case returns without a state frame
Dispatch_PauseReturns(s, t, sh) ==
    CASE t = "move_left"  -> [s EXCEPT !.game = MoveLeft(s.game).g, !.reader = "state"]
      [] t = "move_right" -> [s EXCEPT !.game = MoveRight(s.game).g, !.reader = "state"]
      [] t = "move_down"  -> [s EXCEPT !.game = MoveDown(s.game, sh).g, !.reader = "state"]
      [] t = "rotate"     -> [s EXCEPT !.game = Rotate(s.game).g, !.reader = "state"]
      [] t = "hard_drop"  -> [s EXCEPT !.game = HardDrop(s.game, sh).g, !.reader = "state"]
      [] t = "pause"      -> [s EXCEPT !.game = Pause(s.game), !.reader = "read"]
      [] t = "resume"     -> [s EXCEPT !.game = Resume(s.game, now), !.reader = "state"]
      [] t = "restart"    -> [s EXCEPT !.game = New(sh, now), !.reader = "state"]
      [] t = "pong"       -> [s EXCEPT !.timeoutAt = now + PongTimeout, !.reader = "read"]
      [] OTHER            -> [s EXCEPT !.reader = "state"]

\* mutant: restart starts a new game only when the game is over
Dispatch_RestartWhenOver(s, t, sh) ==
    CASE t = "move_left"  -> [s EXCEPT !.game = MoveLeft(s.game).g, !.reader = "state"]
      [] t = "move_right" -> [s EXCEPT !.game = MoveRight(s.game).g, !.reader = "state"]
      [] t = "move_down"  -> [s EXCEPT !.game = MoveDown(s.game, sh).g, !.reader = "state"]
      [] t = "rotate"     -> [s EXCEPT !.game = Rotate(s.game).g, !.reader = "state"]
      [] t = "hard_drop"  -> [s EXCEPT !.game = HardDrop(s.game, sh).g, !.reader = "state"]
      [] t = "pause"      -> [s EXCEPT !.game = Pause(s.game), !.reader = "state"]
      [] t = "resume"     -> [s EXCEPT !.game = Resume(s.game, now), !.reader = "state"]
      [] t = "restart"    -> [s EXCEPT !.game = IF s.game.state = StateGameOver
                                                 THEN New(sh, now) ELSE s.game,
                                       !.reader = "state"]
      [] t = "pong"       -> [s EXCEPT !.timeoutAt = now + PongTimeout, !.reader = "read"]
      [] OTHER            -> [s EXCEPT !.reader = "state"]

\* the switch of handleMessage on message type t, with shuffle sh at hand
Dispatch(s, t, sh) ==
    CASE t = "move_left"  -> [s EXCEPT !.game = MoveLeft(s.game).g, !.reader = "state"]
      [] t = "move_right" -> [s EXCEPT !.game = MoveRight(s.game).g, !.reader = "state"]
      [] t = "move_down"  -> [s EXCEPT !.game = MoveDown(s.game, sh).g, !.reader = "state"]
      [] t = "rotate"     -> [s EXCEPT !.game = Rotate(s.game).g, !.reader = "state"]
      [] t = "hard_drop"  -> [s EXCEPT !.game = HardDrop(s.game, sh).g, !.reader = "state"]
      [] t = "pause"      -> [s EXCEPT !.game = Pause(s.game), !.reader = "state"]
      [] t = "resume"     -> [s EXCEPT !.game = Resume(s.game, now), !.reader = "state"]
      [] t = "restart"    -> [s EXCEPT !.game = New(sh, now), !.reader = "state"]
      [] t = "pong"       -> [s EXCEPT !.timeoutAt = now + PongTimeout, !.reader = "read"]
      [] OTHER            -> [s EXCEPT !.reader = "state"]

\* the shuffles a call on message type t can make
DispatchChoices(s, t) ==
    IF t = "restart" THEN Shuffles
    ELSE IF t \in {"move_down", "hard_drop"} THEN RefillChoices(s.game.generator)
    ELSE { << >> }

ReaderApply(c) ==
    /\ Running(c)
    /\ Ses(c).reader = "apply"
    /\ \E sh \in DispatchChoices(Ses(c), Ses(c).msg.type) :
         LET d == Dispatch(Ses(c), Ses(c).msg.type, sh)
         IN  server' = With(c, Uncounted(Ses(c),
                                 Swapped(Ses(c), Caused(Ses(c).game, d.game, d, "reader"))))
    /\ UNCHANGED <<now, heap, client, locks, bag>>
    /\ Rest

\* c.sendState() after the switch
ReaderState(c) ==
    /\ Running(c)
    /\ Ses(c).reader = "state"
    /\ server' = With(c, [sendState(Ses(c), "reader") EXCEPT !.reader = "over"])
    /\ UNCHANGED <<now, heap, client, locks, bag>>
    /\ Rest

\* if c.game.IsGameOver()
ReaderOver(c) ==
    /\ Running(c)
    /\ Ses(c).reader = "over"
    /\ server' = With(c,
         IF Ses(c).game.state = StateGameOver
         THEN [Ses(c) EXCEPT !.reader = "gameover"]
         ELSE [Settled(Ses(c), "reader") EXCEPT !.reader = "read"])
    /\ UNCHANGED <<now, heap, client, locks, bag>>
    /\ Rest

\* c.sendGameOver()
ReaderGameOver(c) ==
    /\ Running(c)
    /\ Ses(c).reader = "gameover"
    /\ server' = With(c, [Settled(Counted(Ses(c), sendGameOver(Ses(c), "reader"),
                                           Ses(c).game), "reader")
                            EXCEPT !.reader = "read"])
    /\ UNCHANGED <<now, heap, client, locks, bag>>
    /\ Rest

\* the deferred c.server.unregister <- c: the hub takes c from the channel
ReaderUnregister(c) ==
    /\ Running(c)
    /\ Ses(c).reader = "unregister"
    /\ server.hub = 0
    /\ server' = [With(c, [Ses(c) EXCEPT !.reader = "close"]) EXCEPT !.hub = c]
    /\ UNCHANGED <<now, heap, client, locks, bag>>
    /\ Rest

\* the deferred c.conn.Close()
ReaderClose(c) ==
    /\ Running(c)
    /\ Ses(c).reader = "close"
    /\ server' = With(c, [Ses(c) EXCEPT !.conn = "closed", !.reader = "done"])
    /\ UNCHANGED <<now, heap, client, locks, bag>>
    /\ Rest

\* ---- Server.run (the hub); server.hub is 0 while it waits in its select,
\* c while it handles the unregistration of c, -c while it handles the
\* registration of c
\* close(client.send) of a queue that is closed already: the runtime
\* panics in the task that closes, and the process ends
CloseOfClosed == [server EXCEPT !.crashed = TRUE, !.panic = "close of closed channel"]

\* mutant: the hub deletes the client and leaves its queue open
HubUnregister_KeepsQueue ==
    /\ ~server.crashed
    /\ server.hub > 0
    /\ server' = [server EXCEPT !.clients = @ \ {server.hub}, !.hub = 0]
    /\ UNCHANGED <<now, heap, client, locks, bag>>
    /\ Rest

\* mutant: the hub closes the queue of every client that unregisters,
\* whether it is still in the map or not
HubUnregister_Unguarded ==
    /\ ~server.crashed
    /\ server.hub > 0
    /\ LET c == server.hub
       IN  server' =
             IF Ses(c).sendClosed THEN CloseOfClosed
             ELSE [With(c, [Ses(c) EXCEPT !.sendClosed = TRUE])
                     EXCEPT !.clients = @ \ {c}, !.hub = 0]
    /\ UNCHANGED <<now, heap, client, locks, bag>>
    /\ Rest

\* case client := <-s.unregister: under s.mu, a client found in the map is
\* deleted from it and its queue is closed
HubUnregister ==
    /\ ~server.crashed
    /\ server.hub > 0
    /\ LET c == server.hub
       IN  server' =
             IF c \in server.clients
             THEN IF Ses(c).sendClosed THEN CloseOfClosed
                  ELSE [With(c, [Ses(c) EXCEPT !.sendClosed = TRUE])
                          EXCEPT !.clients = @ \ {c}, !.hub = 0]
             ELSE [server EXCEPT !.hub = 0]
    /\ UNCHANGED <<now, heap, client, locks, bag>>
    /\ Rest

HubRegister ==
    /\ ~server.crashed
    /\ server.hub < 0
    /\ server' = [server EXCEPT !.clients = @ \cup {0 - server.hub}, !.hub = 0]
    /\ UNCHANGED <<now, heap, client, locks, bag>>
    /\ Rest

\* Server.handleHealth: the reported client count
handleHealth == Cardinality(server.clients)

\* ---- Client.writePump
\* the ticker fires: a value is put into ticker.C unless one is waiting
TickerFire(c) ==
    /\ Running(c)
    /\ Ses(c).writer \notin {"exit", "done"}
    /\ ~Ses(c).tickC
    /\ Ses(c).env.left > 0
    /\ server' = With(c, [Ses(c) EXCEPT !.tickC = TRUE, !.env.left = @ - 1])
    /\ UNCHANGED <<now, heap, client, locks, bag>>
    /\ Rest

\* case message, ok := <-c.send with a frame in the queue
WriterTake(c) ==
    /\ Running(c)
    /\ Ses(c).writer = "select"
    /\ Ses(c).send # << >>
    /\ server' = With(c, [Ses(c) EXCEPT !.send = Tail(@), !.out = <<Head(Ses(c).send)>>,
                                        !.writer = "write"])
    /\ UNCHANGED <<now, heap, client, locks, bag>>
    /\ Rest

\* the rest of that case: NextWriter, the frames queued by now appended,
\* w.Close(); delivered tells whether the message reached the client
WriterWrite(c) ==
    /\ Running(c)
    /\ Ses(c).writer = "write"
    /\ LET s == Ses(c)
           msgs == s.out \o s.send
           pings == Cardinality({i \in 1..Len(msgs) : msgs[i].type = "ping"})
           due == IF s.env.pong = "none" THEN 0
                  ELSE IF s.env.due + pings > s.env.left THEN s.env.left
                  ELSE s.env.due + pings
       IN  IF s.conn = "closed"
           THEN server' = With(c, [s EXCEPT !.out = << >>, !.writer = "exit"])
           ELSE \/ /\ s.peer = "up"
                   /\ server' = With(c, [s EXCEPT !.out = << >>, !.send = << >>,
                                                  !.writer = "select",
                                                  !.env.due = due])
                \/ /\ s.peer = "gone"
                   /\ \E ok \in BOOLEAN :
                        server' = With(c, [s EXCEPT !.out = << >>, !.send = << >>,
                                             !.writer = IF ok THEN "select" ELSE "exit"])
    /\ UNCHANGED <<now, heap, client, locks, bag>>
    /\ Rest

\* the same case with the queue closed and drained: the close frame is
\* written (it is sent if the transport is still open) and the loop is left
WriterClosed(c) ==
    /\ Running(c)
    /\ Ses(c).writer = "select"
    /\ Ses(c).send = << >>
    /\ Ses(c).sendClosed
    /\ server' = With(c, [Ses(c) EXCEPT
                            !.closes = IF Ses(c).conn = "open"
                                       THEN Append(@, [code |-> 0, reason |-> ""])
                                       ELSE @,
                            !.writer = "exit"])
    /\ UNCHANGED <<now, heap, client, locks, bag>>
    /\ Rest

\* case <-ticker.C: updateGame up to the test of IsPlaying
WriterTick(c) ==
    /\ Running(c)
    /\ Ses(c).writer = "select"
    /\ Ses(c).tickC
    /\ server' = With(c, [Ses(c) EXCEPT !.tickC = FALSE,
                            !.writer = IF Ses(c).game.state = StatePlaying
                                       THEN "t_update" ELSE "select"])
    /\ UNCHANGED <<now, heap, client, locks, bag>>
    /\ Rest

\* c.game.Update(), on the engine the ticker's read of c.game yields
WriterUpdate(c) ==
    /\ Running(c)
    /\ Ses(c).writer = "t_update"
    /\ \E g \in TickerSees(Ses(c)) : \E sh \in RefillChoices(g.generator) :
         LET s == Ses(c)
             g2 == Update(g, now, sh).g
             s2 == IF g = s.game THEN [s EXCEPT !.game = g2, !.writer = "t_state"]
                   ELSE [s EXCEPT !.old = <<g2>>, !.writer = "t_state"]
         IN  server' = With(c, Caused(g, g2, s2, "ticker"))
    /\ UNCHANGED <<now, heap, client, locks, bag>>
    /\ Rest

\* c.sendState() of updateGame
WriterState(c) ==
    /\ Running(c)
    /\ Ses(c).writer = "t_state"
    /\ \E g \in TickerSees(Ses(c)) :
         server' = With(c, [TrySend(Ses(c), NewStateMessage(g, "ticker"))
                              EXCEPT !.writer = "t_over"])
    /\ UNCHANGED <<now, heap, client, locks, bag>>
    /\ Rest

\* if c.game.IsGameOver() of updateGame
WriterOver(c) ==
    /\ Running(c)
    /\ Ses(c).writer = "t_over"
    /\ \E g \in TickerSees(Ses(c)) :
         server' = With(c,
           IF g.state = StateGameOver
           THEN [Ses(c) EXCEPT !.writer = "t_gameover"]
           ELSE [Settled(Ses(c), "ticker") EXCEPT !.writer = "select", !.old = << >>])
    /\ UNCHANGED <<now, heap, client, locks, bag>>
    /\ Rest

\* c.sendGameOver() of updateGame
WriterGameOver(c) ==
    /\ Running(c)
    /\ Ses(c).writer = "t_gameover"
    /\ \E g \in TickerSees(Ses(c)) :
         server' = With(c, [Settled(Counted(Ses(c),
                                      TrySend(Ses(c), NewGameOverMessage(g, "ticker")), g),
                                    "ticker")
                              EXCEPT !.writer = "select", !.old = << >>])
    /\ UNCHANGED <<now, heap, client, locks, bag>>
    /\ Rest

\* case <-c.pingTimer.C of writePump: a ping is queued, the timer is not reset
WriterPing(c) ==
    /\ Running(c)
    /\ Ses(c).writer = "select"
    /\ Ses(c).pingC
    /\ server' = With(c, [sendPing(Ses(c), now, "writer") EXCEPT !.pingC = FALSE])
    /\ UNCHANGED <<now, heap, client, locks, bag>>
    /\ Rest

\* the deferred ticker.Stop() and c.conn.Close()
WriterExit(c) ==
    /\ Running(c)
    /\ Ses(c).writer = "exit"
    /\ server' = With(c, [Ses(c) EXCEPT !.conn = "closed", !.writer = "done"])
    /\ UNCHANGED <<now, heap, client, locks, bag>>
    /\ Rest

\* ---- the two timers of a Client: at its time a running timer puts a value
\* into its channel and stops
PingTimerFire(c) ==
    /\ Running(c)
    /\ Ses(c).pingAt # Stopped
    /\ now >= Ses(c).pingAt
    /\ server' = With(c, [Ses(c) EXCEPT !.pingC = TRUE, !.pingAt = Stopped])
    /\ UNCHANGED <<now, heap, client, locks, bag>>
    /\ Rest

TimeoutTimerFire(c) ==
    /\ Running(c)
    /\ Ses(c).timeoutAt # Stopped
    /\ now >= Ses(c).timeoutAt
    /\ server' = With(c, [Ses(c) EXCEPT !.timeoutC = TRUE, !.timeoutAt = Stopped])
    /\ UNCHANGED <<now, heap, client, locks, bag>>
    /\ Rest

\* ---- Client.heartbeat
\* case <-c.pingTimer.C: sendPing and Reset(PingInterval)
HeartbeatPing(c) ==
    /\ Running(c)
    /\ Ses(c).heartbeat = "select"
    /\ Ses(c).pingC
    /\ server' = With(c, [sendPing(Ses(c), now, "heartbeat") EXCEPT
                            !.pingC = FALSE, !.pingAt = now + PingInterval])
    /\ UNCHANGED <<now, heap, client, locks, bag>>
    /\ Rest

\* what WriteMessage of the heartbeat task can do to the transport: it is
\* written when no other write is under way; while writePump is inside a
\* write the two writes are unsynchronised, and the frame is written, is
\* lost, or the websocket library panics on the concurrent write; once a
\* close frame has been written the library refuses every further write
CloseWriteOutcomes(s) ==
    IF s.conn = "closed" \/ s.closes # << >> THEN {"lost"}
    ELSE IF s.writer = "write" THEN {"written", "lost", "panic"}
    ELSE {"written"}

\* case <-c.timeoutTimer.C: the close frame with reason "timeout", then
\* c.conn.Close(), then return
HeartbeatTimeout(c) ==
    /\ Running(c)
    /\ Ses(c).heartbeat = "select"
    /\ Ses(c).timeoutC
    /\ \E o \in CloseWriteOutcomes(Ses(c)) :
         server' =
           IF o = "panic"
           THEN [server EXCEPT !.crashed = TRUE, !.panic = "concurrent write"]
           ELSE With(c, [Ses(c) EXCEPT
                           !.timeoutC = FALSE,
                           !.closes = IF o = "written"
                                      THEN Append(@, [code |-> 1000, reason |-> "timeout"])
                                      ELSE @,
                           !.conn = "closed",
                           !.heartbeat = "done"])
    /\ UNCHANGED <<now, heap, client, locks, bag>>
    /\ Rest

\* ---- the client and the clock
\* the client goes away
Disconnect(c) ==
    /\ Running(c)
    /\ Ses(c).peer = "up"
    /\ Ses(c).env.leaves
    /\ server' = With(c, [Ses(c) EXCEPT !.peer = "gone"])
    /\ UNCHANGED <<now, heap, client, locks, bag>>
    /\ Rest

\* no task of session s has a step to take before more time passes
Quiet(s) ==
    /\ s.handler = "done"
    /\ s.reader \in {"read", "done"}
    /\ s.reader = "read" =>
         (s.conn = "open" /\ s.peer = "up" /\ now < s.readDeadline /\ s.env.due = 0)
    /\ s.writer \in {"select", "done"}
    /\ s.writer = "select" => (s.send = << >> /\ ~s.sendClosed /\ ~s.tickC /\ ~s.pingC)
    /\ s.heartbeat = "select" => (~s.pingC /\ ~s.timeoutC)
    /\ s.pingAt = Stopped \/ now < s.pingAt
    /\ s.timeoutAt = Stopped \/ now < s.timeoutAt

\* dt milliseconds pass while every task waits; no timer and no read
\* deadline is passed over
Elapse(dt) ==
    /\ ~server.crashed
    /\ server.hub = 0
    /\ \A c \in DOMAIN server.sessions :
         LET s == Ses(c)
         IN  /\ Quiet(s)
             /\ s.pingAt = Stopped \/ now + dt <= s.pingAt
             /\ s.timeoutAt = Stopped \/ now + dt <= s.timeoutAt
             /\ s.reader = "read" => now + dt <= s.readDeadline
    /\ now' = now + dt
    /\ Rest
    /\ UNCHANGED <<heap, client, locks, bag>>

\* ------------------------------------------- one session and its client
MaxEvents == 2

\* what a client can send: the control types, a type the protocol does not
\* know, an object without type, text that is not JSON
ClientFrames == {Frame(t) : t \in MessageTypes \cup {"bogus", ""}} \cup {Malformed}

\* the engines the session has got to: a new one, and recorded games in
\* which the stack has reached the spawn rows
SessionGames ==
    {New(<< TypeI, TypeO, TypeT, TypeS, TypeZ, TypeJ, TypeL >>, 0)}
      \cup {ReplayTo(Scripts[sp[1]], sp[2]) : sp \in {<<2, 12>>, <<2, 14>>}}

\* session s once handleWebSocket has queued the first state frame, the
\* reader has entered its loop and the writer has written what was queued
Established(s) ==
    [s EXCEPT !.handler = "done", !.reader = "read", !.readDeadline = PongTimeout]

\* a server with one session, just established or a second old
InitSession ==
    /\ \E g \in SessionGames :
         server = [clients |-> {1}, hub |-> 0, down |-> FALSE, crashed |-> FALSE,
                   panic |-> "", sessions |-> 1 :> Established(NewClient(g, 0,
                       [frames |-> ClientFrames, left |-> MaxEvents,
                        pong |-> "none", due |-> 0, leaves |-> FALSE]))]
    /\ game = New(<< TypeI, TypeO, TypeT, TypeS, TypeZ, TypeJ, TypeL >>, 0)
    /\ now \in {0, 1000}
    /\ last = NoOp
    /\ steps = 0
    /\ clear = ClearIdle
    /\ Apart

\* a second passes
SessionClock ==
    /\ Running(1)
    /\ Ses(1).env.left > 0
    /\ Elapse(1000)
    /\ server' = With(1, [Ses(1) EXCEPT !.env.left = @ - 1])

NextSession ==
    \/ ReaderRead(1)
    \/ ReaderHandle(1)
    \/ ReaderApply(1)
    \/ ReaderState(1)
    \/ ReaderOver(1)
    \/ ReaderGameOver(1)
    \/ TickerFire(1)
    \/ WriterTake(1)
    \/ WriterWrite(1)
    \/ WriterTick(1)
    \/ WriterUpdate(1)
    \/ WriterState(1)
    \/ WriterOver(1)
    \/ WriterGameOver(1)
    \/ SessionClock

\* the first seconds of a session: the timers (30 s, 60 s) and the read
\* deadline (60 s) are far away, the client stays
SpecSession == InitSession /\ [][NextSession]_vars

\* ------------------------------------------------ one session's heartbeat
MaxTicks == 9
MaxPongs == 3

\* the clock of SpecHeartbeat moves in thirds of the ping interval
ClockStep == PingInterval \div 3

\* a session with a paused game, for which a tick of the 200 ms ticker does
\* nothing (updateGame returns at once), and a client that answers the
\* pings it receives, with application-level or with transport-level pongs,
\* until it has sent env.left of them, and is silent from then on
InitHeartbeat ==
    /\ \E kind \in {"app", "transport"} : \E n \in 0..MaxPongs :
         server = [clients |-> {1}, hub |-> 0, down |-> FALSE, crashed |-> FALSE,
                   panic |-> "", sessions |-> 1 :> Established(NewClient(
                       Pause(New(<< TypeI, TypeO, TypeT, TypeS, TypeZ, TypeJ, TypeL >>, 0)), 0,
                       [frames |-> {}, left |-> n, pong |-> kind, due |-> 0,
                        leaves |-> FALSE]))]
    /\ game = New(<< TypeI, TypeO, TypeT, TypeS, TypeZ, TypeJ, TypeL >>, 0)
    /\ now = 0
    /\ last = NoOp
    /\ steps = 0
    /\ clear = ClearIdle
    /\ Apart

HeartbeatClock ==
    /\ now < MaxTicks * ClockStep
    /\ Elapse(ClockStep)
    /\ UNCHANGED server

NextHeartbeat ==
    \/ ReaderReadPong(1)
    \/ ReaderPongHandler(1)
    \/ ReaderHandle(1)
    \/ ReaderApply(1)
    \/ ReaderFail(1)
    \/ ReaderUnregister(1)
    \/ ReaderClose(1)
    \/ HubUnregister
    \/ WriterTake(1)
    \/ WriterWrite(1)
    \/ WriterClosed(1)
    \/ WriterPing(1)
    \/ WriterExit(1)
    \/ PingTimerFire(1)
    \/ TimeoutTimerFire(1)
    \/ HeartbeatPing(1)
    \/ HeartbeatTimeout(1)
    \/ HeartbeatClock

SpecHeartbeat == InitHeartbeat /\ [][NextHeartbeat]_vars

\* --------------------------------------------- the server and its sessions
NumClients == 1

\* Server.Shutdown: under s.mu every registered client has its transport
\* closed and then its queue closed, and the map is replaced by an empty one
Shutdown ==
    /\ ~server.crashed
    /\ ~server.down
    /\ server' =
         IF \E c \in server.clients : server.sessions[c].sendClosed THEN CloseOfClosed
         ELSE [server EXCEPT
                 !.sessions = [c \in DOMAIN server.sessions |->
                                 IF c \in server.clients
                                 THEN [server.sessions[c] EXCEPT !.conn = "closed",
                                                                 !.sendClosed = TRUE]
                                 ELSE server.sessions[c]],
                 !.clients = {},
                 !.down = TRUE]
    /\ UNCHANGED <<now, heap, client, locks, bag>>
    /\ Rest

\* handleWebSocket up to the start of the three tasks: the client is built,
\* handed to the hub over the register channel, and its tasks are started
HandlerRegister(c) ==
    /\ Running(c)
    /\ ~server.down
    /\ Ses(c).handler = "register"
    /\ server.hub = 0
    /\ server' = [With(c, [Ses(c) EXCEPT !.handler = "state", !.reader = "start",
                                         !.writer = "select", !.heartbeat = "select"])
                    EXCEPT !.hub = 0 - c]
    /\ UNCHANGED <<now, heap, client, locks, bag>>
    /\ Rest

\* a client that has not connected yet
Unconnected(s) ==
    [s EXCEPT !.handler = "register", !.reader = "off", !.writer = "off",
              !.heartbeat = "off"]

\* a server that has just started, and the clients that will connect to it
\* and may go away again; the sessions are watched for their first seconds,
\* in which no timer fires, and their clients send no control frames
InitServer ==
    /\ server = [clients |-> {}, hub |-> 0, down |-> FALSE, crashed |-> FALSE,
                 panic |-> "",
                 sessions |-> [c \in 1..NumClients |->
                     Unconnected(NewClient(
                       Pause(New(<< TypeI, TypeO, TypeT, TypeS, TypeZ, TypeJ, TypeL >>, 0)), 0,
                       [frames |-> {}, left |-> 0, pong |-> "none", due |-> 0,
                        leaves |-> TRUE]))]]
    /\ game = New(<< TypeI, TypeO, TypeT, TypeS, TypeZ, TypeJ, TypeL >>, 0)
    /\ now = 0
    /\ last = NoOp
    /\ steps = 0
    /\ clear = ClearIdle
    /\ Apart

\* the steps of the server's own tasks
ServerSteps ==
    \/ HubRegister
    \/ HubUnregister
    \/ \E c \in 1..NumClients :
         \/ HandlerState(c)
         \/ ReaderStart(c)
         \/ ReaderFail(c)
         \/ ReaderUnregister(c)
         \/ ReaderClose(c)
         \/ WriterTake(c)
         \/ WriterWrite(c)
         \/ WriterClosed(c)
         \/ WriterExit(c)

\* the steps the outside world triggers
WorldSteps ==
    \/ Shutdown
    \/ \E c \in 1..NumClients :
         \/ HandlerRegister(c)
         \/ Disconnect(c)

NextServer == ServerSteps \/ WorldSteps

\* the tasks of the server are goroutines, which the scheduler keeps running
SpecServer == InitServer /\ [][NextServer]_vars /\ WF_vars(ServerSteps)

\* ------------------------------------------------------------- claims
\* the board cells covered by piece p
PieceCells(p) == ShapeCells(p.X, p.Y, GetShape(p))

\* the operation op was performed in this step
Did(op) == steps' = steps + 1 /\ last'.op = op

\* this step ran lock-and-spawn: a MoveDown that failed, a HardDrop, or a
\* due tick whose gravity step was blocked, each on a Playing engine
BlockedBelow(g) == CheckCollision(g.board, g.current.X, g.current.Y + 1, GetShape(g.current))

Locks ==
    /\ game.state = StatePlaying
    /\ \/ Did("MoveDown") /\ BlockedBelow(game)
       \/ Did("HardDrop")
       \/ Did("Update") /\ now - game.lastDrop >= game.dropInterval /\ BlockedBelow(game)

\* C1: whenever the engine is Playing, every filled cell of the current piece
\* lies inside the 10x20 board and on an empty board cell.
C1_ActivePieceFree ==
    game.state = StatePlaying =>
        \A xy \in PieceCells(game.current) :
            /\ xy[1] \in 0..(Width - 1)
            /\ xy[2] \in 0..(Height - 1)
            /\ game.board[xy[2]][xy[1]] = ColorEmpty

\* a rotation was wall-kicked on a Playing engine whose board holds locked cells
C1_Witness ==
    /\ game.state = StatePlaying
    /\ last.op = "Rotate" /\ last.ok
    /\ <<last.px, last.py>> # <<game.current.X, game.current.Y>>
    /\ game.board # NewBoard

\* C2: on a Paused or GameOver engine MoveLeft, MoveRight, MoveDown, Rotate,
\* HardDrop and Update return false (HardDrop 0) and leave board, current,
\* next, score, level, lines, drop interval and state unchanged.
C2_NoOpUnlessPlaying ==
    [][ ( /\ game.state \in {StatePaused, StateGameOver}
          /\ \E op \in {"MoveLeft", "MoveRight", "MoveDown", "Rotate", "HardDrop", "Update"} :
                Did(op) )
        => ( /\ last'.ok = FALSE
             /\ last'.dist = 0
             /\ game'.board = game.board
             /\ game'.current = game.current
             /\ game'.next = game.next
             /\ game'.score = game.score
             /\ game'.level = game.level
             /\ game'.lines = game.lines
             /\ game'.dropInterval = game.dropInterval
             /\ game'.state = game.state ) ]_vars

\* a MoveLeft was issued after the game was over
C2_Witness == game.state = StateGameOver /\ last.op = "MoveLeft"

\* C3: a new engine is Playing; the only state changes are Playing -> Paused
\* by Pause, Paused -> Playing by Resume, and Playing -> GameOver by a
\* lock-and-spawn whose spawned piece collides; Pause on a Playing engine and
\* Resume on a Paused one do change the state; GameOver is never left.
C3_StateMachine ==
    /\ \A sh \in Shuffles : New(sh, 0).state = StatePlaying
    /\ [][ /\ game'.state # game.state =>
                \/ game.state = StatePlaying /\ game'.state = StatePaused /\ Did("Pause")
                \/ game.state = StatePaused /\ game'.state = StatePlaying /\ Did("Resume")
                \/ /\ game.state = StatePlaying /\ game'.state = StateGameOver
                   /\ Locks
                   /\ CheckCollision(game'.board, game'.current.X, game'.current.Y,
                                     GetShape(game'.current))
           /\ Did("Pause") /\ game.state = StatePlaying => game'.state = StatePaused
           /\ Did("Resume") /\ game.state = StatePaused => game'.state = StatePlaying
           /\ game.state = StateGameOver => game'.state = StateGameOver ]_vars

\* a Resume was issued after the game was over
C3_Witness == game.state = StateGameOver /\ last.op = "Resume"

\* C4: a failed MoveDown, a blocked gravity step and every HardDrop run
\* lock-and-spawn: next is promoted to current, a fresh next is drawn from
\* the generator, and the state is GameOver exactly when the promoted piece
\* collides with the board at its spawn position (3, 0, rotation 0);
\* otherwise it stays Playing.
C4_LockAndSpawn ==
    [][ Locks =>
          LET promoted == game.next
              pend == game.generator.pending
              collides == \E xy \in ShapeCells(3, 0, shapes[promoted.Type]) :
                              \/ ~isValidPosition(xy[1], xy[2])
                              \/ game'.board[xy[2]][xy[1]] # ColorEmpty
          IN  /\ promoted = NewPiece(promoted.Type)
              /\ game'.current = promoted
              /\ (game'.state = StateGameOver) <=> collides
              /\ ~collides => game'.state = StatePlaying
              /\ game'.next = NewPiece(game'.next.Type)
              /\ IF pend # << >>
                 THEN game'.next.Type = Head(pend) /\ game'.generator.pending = Tail(pend)
                 ELSE \E sh \in Shuffles :
                        game'.next.Type = Head(sh) /\ game'.generator.pending = Tail(sh) ]_vars

\* a HardDrop locked a piece and the piece spawned after it collided
C4_Witness == game.state = StateGameOver /\ last.op = "HardDrop"

\* a lock-and-spawn that left the engine Playing
C4_WitnessPlaying == game.state = StatePlaying /\ last.op = "MoveDown" /\ ~last.ok

\* the piece as it is locked in this step: where HardDrop lands it, or where
\* the blocked MoveDown / gravity step found it
Landed ==
    IF last'.op = "HardDrop"
    THEN [game.current EXCEPT !.Y = game.current.Y + last'.dist]
    ELSE game.current

\* board b with the cells of piece p painted in p's colour
Stamped(b, p) ==
    LET cells == PieceCells(p)
    IN  [y \in 0..(Height - 1) |-> [x \in 0..(Width - 1) |->
            IF <<x, y>> \in cells THEN p.Color ELSE b[y][x]]]

\* the rows of b without an empty cell, and the other rows
FullRows(b) == {y \in 0..(Height - 1) : \A x \in 0..(Width - 1) : b[y][x] # ColorEmpty}
KeptRows(b) == (0..(Height - 1)) \ FullRows(b)

\* b without its full rows: the other rows, in their order, packed at the
\* bottom under as many empty rows as there were full ones
Compacted(b) ==
    LET keptRows == KeptRows(b)
        n == Height - Cardinality(keptRows)
        rank == [y \in keptRows |-> Cardinality({z \in keptRows : z < y})]
        kept(i) == CHOOSE y \in keptRows : rank[y] = i
    IN  [y \in 0..(Height - 1) |->
            IF y < n THEN [x \in 0..(Width - 1) |-> ColorEmpty] ELSE b[kept(y - n)]]

ScoreTable == [n \in 0..4 |-> CASE n = 0 -> 0 [] n = 1 -> 100 [] n = 2 -> 300
                                [] n = 3 -> 500 [] OTHER -> 800]

\* C5: a lock-and-spawn that clears n rows (0..4) adds scoreTable[n] x level
\* to the score, with the level in force before the lock, and n to lines
\* (a HardDrop first adds its drop bonus, distance x level).
C5_LineClearScore ==
    [][ Locks =>
          LET n == Cardinality(FullRows(Stamped(game.board, Landed)))
              bonus == IF last'.op = "HardDrop" THEN last'.dist * game.level ELSE 0
          IN  /\ n \in 0..4
              /\ game'.score = game.score + bonus + ScoreTable[n] * game.level
              /\ game'.lines = game.lines + n ]_vars

\* a HardDrop cleared four rows at once
C5_Witness ==
    /\ last.op = "HardDrop" /\ steps > 0
    /\ game.lines = 4 /\ game.board = NewBoard

\* C6: level = floor(lines / 10) + 1 and the drop interval is
\* max(100, 1000 - 100 * (level - 1)) ms in every reachable state.
C6_LevelAndInterval ==
    /\ game.level = (game.lines \div 10) + 1
    /\ game.dropInterval =
         (IF 1000 - 100 * (game.level - 1) > 100 THEN 1000 - 100 * (game.level - 1) ELSE 100)

\* the tenth line was cleared: level 2, 900 ms
C6_Witness ==
    /\ steps > 0 /\ game.lines = 10
    /\ game.level = 2 /\ game.dropInterval = 900

\* C7: HardDrop on a Playing engine moves the piece straight down, x and
\* rotation unchanged, through free positions to the position whose next row
\* down collides, returns the rows descended d, adds d x level (level before
\* the lock) to the score besides the line-clear score, locks the piece there
\* and spawns the next one; a one-row piece fresh on an empty board falls
\* at least 18 rows.
C7_HardDrop ==
    [][ Did("HardDrop") /\ game.state = StatePlaying =>
          LET p == game.current
              d == last'.dist
              shape == GetShape(p)
              free(y) == \A xy \in ShapeCells(p.X, y, shape) :
                            /\ isValidPosition(xy[1], xy[2])
                            /\ game.board[xy[2]][xy[1]] = ColorEmpty
              stamped == Stamped(game.board, [p EXCEPT !.Y = p.Y + d])
              n == Cardinality(FullRows(stamped))
          IN  /\ d >= 0
              /\ \A j \in 0..d : free(p.Y + j)
              /\ ~free(p.Y + d + 1)
              /\ game'.score = game.score + d * game.level + ScoreTable[n] * game.level
              /\ game'.board = Compacted(stamped)
              /\ game'.current = game.next
              /\ (game.board = NewBoard /\ p = NewPiece(p.Type) /\ Len(shapes[p.Type]) = 1)
                    => d >= 18 ]_vars

\* a fresh one-row piece was hard-dropped on an empty board
C7_Witness ==
    /\ last.op = "HardDrop" /\ last.py = 0 /\ last.dist >= 18
    /\ steps = 1 /\ game.lines = 0

\* a HardDrop at level 2
C7_WitnessLevel2 == last.op = "HardDrop" /\ last.dist > 0 /\ game.level = 2 /\ steps = 3

\* C8: a tick on a Playing engine at time now changes nothing and returns
\* false while now - lastDrop < dropInterval; otherwise it returns true, sets
\* lastDrop = now and does one gravity step: the piece moves down one row or,
\* if it is blocked, lock-and-spawn runs once.
C8_Tick ==
    [][ Did("Update") /\ game.state = StatePlaying =>
          IF now - game.lastDrop < game.dropInterval
          THEN game' = game /\ ~last'.ok
          ELSE /\ last'.ok
               /\ game'.lastDrop = now
               /\ IF ~BlockedBelow(game)
                  THEN game' = [game EXCEPT !.lastDrop = now,
                                            !.current.Y = game.current.Y + 1]
                  ELSE /\ game'.board = Compacted(Stamped(game.board, game.current))
                       /\ game'.current = game.next ]_vars

\* a due tick moved the piece down one row
C8_Witness ==
    /\ last.op = "Update" /\ last.ok
    /\ game.lastDrop = now /\ now > 0
    /\ game.current.Y = last.py + 1

\* a tick that came before the interval had passed
C8_WitnessEarly == last.op = "Update" /\ ~last.ok /\ game.state = StatePlaying /\ now > game.lastDrop

\* a due tick found the piece blocked and locked it
C8_WitnessLock == last.op = "Update" /\ last.ok /\ game.current.Y = 0 /\ game.lastDrop = now /\ now > 0

\* C9: Board.ClearLines always returns; when it has, the count is the number
\* of rows that were complete when it was called, no row of the board is
\* complete, the rows that were not complete are all there, in their order,
\* at the bottom, and the rows above them are empty.  The loop of the game's
\* own ClearLines computes the same board and count.
C9_ClearLines ==
    /\ [](clear.pc = "done" =>
            /\ clear.n = Cardinality(FullRows(clear.b0))
            /\ FullRows(clear.b) = {}
            /\ clear.b = Compacted(clear.b0)
            /\ ClearLines(clear.b0) = [board |-> clear.b, ret |-> clear.n])
    /\ <>(clear.pc = "done")

\* ClearLines has returned from a board with two complete rows, one on the
\* other, under a row that stays and over one that stays
C9_Witness ==
    /\ clear.pc = "done"
    /\ clear.n >= 2
    /\ \E y \in 1..(Height - 3) :
         /\ {y, y + 1} \subseteq FullRows(clear.b0)
         /\ clear.b0[y - 1] = MakeRow("short")
         /\ clear.b0[y + 2] = MakeRow("comb")

\* the wall kicks as documented, in the documented order
DocumentedKicks(t) ==
    IF t = TypeI
    THEN << <<-1, 0>>, <<1, 0>>, <<-2, 0>>, <<2, 0>>,
            <<-1, -1>>, <<1, -1>>, <<-1, 1>>, <<1, 1>> >>
    ELSE << <<-1, 0>>, <<1, 0>>, <<0, -1>> >>

C10_WitnessUp ==
    /\ last.op = "Rotate"
    /\ last.ok
    /\ game.current.Type \notin {TypeI, TypeO}
    /\ game.current.X = last.px
    /\ game.current.Y = last.py - 1

\* an I piece that fits one cell and two cells to the left has been kicked
\* one cell: the first of two offsets that do not collide was taken
C10_WitnessFirstOfTwo ==
    /\ last.op = "Rotate"
    /\ last.ok
    /\ game.current.Type = TypeI
    /\ game.current.X = last.px - 1
    /\ game.current.Y = last.py
    /\ ~CheckCollision(game.board, last.px - 2, last.py, GetShape(game.current))

\* C11: on a Playing engine, a MoveLeft or MoveRight whose target collides,
\* and a Rotate of a piece other than O whose rotated shape collides in place
\* and at every documented offset, return false and leave the piece and the
\* board as they were; a MoveLeft, MoveRight or MoveDown that returns true
\* has changed one coordinate by one cell and nothing else of the piece; a
\* Rotate of an O piece returns true and leaves the piece as it was.
C11_MovesFrame ==
    [][ game.state = StatePlaying =>
        LET p == game.current
            q == game'.current
            shape == GetShape(p)
            newShape == rotate(shapes[p.Type], (p.Rotation + 1) % 4)
            hits(dx, dy, sh) == CheckCollision(game.board, p.X + dx, p.Y + dy, sh)
            ks == DocumentedKicks(p.Type)
            same == q = p /\ game'.board = game.board
        IN  /\ (Did("MoveLeft") /\ hits(-1, 0, shape)) => (~last'.ok /\ same)
            /\ (Did("MoveRight") /\ hits(1, 0, shape)) => (~last'.ok /\ same)
            /\ (/\ Did("Rotate")
                /\ p.Type # TypeO
                /\ hits(0, 0, newShape)
                /\ \A i \in 1..Len(ks) : hits(ks[i][1], ks[i][2], newShape))
               => (~last'.ok /\ same)
            /\ (Did("MoveLeft") /\ last'.ok) => q = [p EXCEPT !.X = p.X - 1]
            /\ (Did("MoveRight") /\ last'.ok) => q = [p EXCEPT !.X = p.X + 1]
            /\ (Did("MoveDown") /\ last'.ok) => q = [p EXCEPT !.Y = p.Y + 1]
            /\ (Did("Rotate") /\ p.Type = TypeO) => (last'.ok /\ same) ]_vars

\* a Rotate has failed: the turned piece fits neither in place nor at any
\* offset, here an I piece
C11_Witness ==
    /\ last.op = "Rotate"
    /\ ~last.ok
    /\ game.state = StatePlaying
    /\ game.current.Type = TypeI

\* an O piece has been rotated
C11_WitnessO == last.op = "Rotate" /\ last.ok /\ game.current.Type = TypeO

\* a MoveLeft was refused at the wall or at a block
C11_WitnessLeft == last.op = "MoveLeft" /\ ~last.ok /\ game.state = StatePlaying

\* ------------------------------------------------------------ one session

\* the session of SpecSession before and after a step
Cur == server.sessions[1]
Nxt == server'.sessions[1]

\* the reader accepts the frame it holds: handleMessage reaches its switch
Accepted(s) ==
    /\ ~ParseControlMessage(s.msg).err
    /\ IsValidControlType(ParseControlMessage(s.msg).type)
    /\ ~(s.game.state = StateGameOver /\ s.msg.type \notin {"pong", "restart"})

\* the reader handles one frame at a time: it takes a frame only when it is
\* idle, mutates the engine before it touches the queue, and comes back to
\* reading only when the handler of the frame it holds has returned
C12_OneAtATime ==
    /\ Nxt.reader = "handle" /\ Cur.reader # "handle" => Cur.reader = "read"
    /\ Cur.reader = "handle" /\ Nxt.reader # "handle" =>
         IF Accepted(Cur) THEN Nxt.reader = "apply" /\ Nxt.msg = Cur.msg
         ELSE Nxt.reader = "read"
    /\ Cur.reader = "apply" /\ Nxt.reader # "apply" =>
         /\ Nxt.send = Cur.send
         /\ Nxt.reader = IF Cur.msg.type = "pong" THEN "read" ELSE "state"
    /\ Cur.reader = "state" /\ Nxt.reader # "state" => Nxt.reader = "over" /\ Nxt.game = Cur.game
    /\ Nxt.reader = "read" /\ Cur.reader # "read" =>
         Cur.reader \in {"handle", "apply", "over", "gameover"}

\* C12 as stated: control frames are handled one at a time, and for every
\* accepted command other than pong the reader enqueues the state frame of
\* the engine after the mutation and before it reads the next frame
C12_StateAfterCommand ==
    [][ /\ C12_OneAtATime
        /\ Cur.reader = "state" /\ Nxt.reader # "state" =>
             Nxt.send = Append(Cur.send, NewStateMessage(Cur.game, "reader")) ]_vars

\* C12 amended: as above, except that the state frame is dropped, the queue
\* left as it was, when the outbound queue is full or closed
C12_StateAfterCommandOrDropped ==
    [][ /\ C12_OneAtATime
        /\ Cur.reader = "state" /\ Nxt.reader # "state" =>
             Nxt.send = IF Cur.sendClosed \/ Len(Cur.send) >= QueueCap THEN Cur.send
                        ELSE Append(Cur.send, NewStateMessage(Cur.game, "reader")) ]_vars

\* the reader has enqueued the state frame of an accepted move
C12_Witness ==
    /\ Cur.reader = "over" /\ Cur.msg.type = "move_left"
    /\ Len(Cur.send) > 0
    /\ Cur.send[Len(Cur.send)] = NewStateMessage(Cur.game, "reader")

\* the state frame of a restart found the queue full and is lost
C12_WitnessDropped ==
    /\ Cur.reader = "over" /\ Cur.msg.type = "restart"
    /\ Len(Cur.send) = QueueCap
    /\ Cur.send[Len(Cur.send)].type = "game_over"

\* the nine control types the protocol documents
DocumentedTypes ==
    {"move_left", "move_right", "move_down", "rotate", "hard_drop",
     "pause", "resume", "restart", "pong"}

\* the step in which handleMessage decides on the frame the reader holds
ReaderDecides == Cur.reader = "handle" /\ Nxt.reader # "handle"

\* the step answers with exactly one error frame of code 400 and nothing
\* else: the handler returns, the engine and the session are as they were
AnsweredWithError ==
    /\ Len(Nxt.send) = Len(Cur.send) + 1
    /\ SubSeq(Nxt.send, 1, Len(Cur.send)) = Cur.send
    /\ Nxt.send[Len(Nxt.send)].type = "error"
    /\ Nxt.send[Len(Nxt.send)].data.code = 400
    /\ Nxt.reader = "read"
    /\ Nxt.game = Cur.game
    /\ Nxt.conn = "open" /\ ~Nxt.sendClosed
    /\ 1 \in server'.clients

\* C13: a frame that is malformed JSON, has no type, or has a type outside
\* the nine documented ones is answered with exactly one error frame of
\* code 400, yields no state frame, leaves the engine unchanged, and leaves
\* the session connected and registered
C13_InvalidRejected ==
    [][ ReaderDecides /\ (ParseControlMessage(Cur.msg).err
                            \/ ParseControlMessage(Cur.msg).type \notin DocumentedTypes)
          => AnsweredWithError ]_vars

\* C14: while the engine is GameOver, a control frame other than pong and
\* restart is answered with an error frame, is not dispatched to the engine,
\* yields no state or game_over frame, and does not close the session
C14_GameOverRejected ==
    [][ ReaderDecides /\ Cur.game.state = StateGameOver
                      /\ Cur.msg \notin {Frame("pong"), Frame("restart")}
          => /\ AnsweredWithError
             /\ \A i \in (Len(Cur.send) + 1)..Len(Nxt.send) :
                  Nxt.send[i].type \notin {"state", "game_over"} ]_vars

\* the frame the step appends to the outbound queue, if it appends one
Enqueues(f) == Nxt.send = Append(Cur.send, f)

\* a state frame of task by that shows the finished game owed by that task
FinalState(f, by) ==
    /\ f.type = "state" /\ f.by = by
    /\ f.data.state = "gameover"
    /\ f.data.score = Cur.final.score
    /\ f.data.level = Cur.final.level
    /\ f.data.lines = Cur.final.lines

\* C15: whenever a reader command or a ticker tick moves the engine into
\* GameOver, the task that caused it enqueues the state frame and then a
\* game_over frame with the final score, level and lines of that engine,
\* whatever the interleaving of reader and ticker
C15_GameOverAnnounced ==
    [][ /\ Cur.cause = "reader" /\ Cur.reader = "state" /\ Nxt.reader # "state" =>
             \E f \in {Nxt.send[i] : i \in 1..Len(Nxt.send)} :
                Enqueues(f) /\ FinalState(f, "reader")
        /\ Cur.cause = "reader" /\ Cur.reader = "over" /\ Nxt.reader # "over" =>
             Nxt.reader = "gameover"
        /\ Cur.cause = "reader" /\ Cur.reader = "gameover" /\ Nxt.reader # "gameover" =>
             Enqueues([type |-> "game_over", by |-> "reader", data |-> Cur.final])
        /\ Cur.cause = "ticker" /\ Cur.writer = "t_state" /\ Nxt.writer # "t_state" =>
             \E f \in {Nxt.send[i] : i \in 1..Len(Nxt.send)} :
                Enqueues(f) /\ FinalState(f, "ticker")
        /\ Cur.cause = "ticker" /\ Cur.writer = "t_over" /\ Nxt.writer # "t_over" =>
             Nxt.writer = "t_gameover"
        /\ Cur.cause = "ticker" /\ Cur.writer = "t_gameover" /\ Nxt.writer # "t_gameover" =>
             Enqueues([type |-> "game_over", by |-> "ticker", data |-> Cur.final]) ]_vars

\* a freshly constructed engine
Fresh(g) ==
    /\ g.state = StatePlaying
    /\ g.score = 0 /\ g.lines = 0 /\ g.level = 1
    /\ g.dropInterval = 1000
    /\ g.board = NewBoard
    /\ g.current # NilPiece /\ g.current = NewPiece(g.current.Type)
    /\ g.next # NilPiece /\ g.next = NewPiece(g.next.Type)
    /\ g.current.Type # g.next.Type

\* C16: a restart, in any engine state, installs a fresh engine (Playing,
\* score 0, lines 0, level 1, interval 1000, empty board, newly drawn current
\* and next pieces), and the state frame the reader enqueues in response is
\* the snapshot of that fresh engine
C16_RestartFresh ==
    [][ /\ Cur.reader = "apply" /\ Cur.msg.type = "restart" /\ Nxt.reader # "apply" =>
             Fresh(Nxt.game) /\ Nxt.reader = "state"
        /\ Cur.reader = "state" /\ Cur.msg.type = "restart" /\ Nxt.reader # "state"
           /\ Nxt.send # Cur.send =>
             /\ Fresh(Cur.game)
             /\ Enqueues(NewStateMessage(Cur.game, "reader"))
             /\ Nxt.send[Len(Nxt.send)].data.state = "playing"
             /\ Nxt.send[Len(Nxt.send)].data.score = 0
             /\ Nxt.send[Len(Nxt.send)].data.lines = 0
             /\ Nxt.send[Len(Nxt.send)].data.level = 1
             /\ Nxt.send[Len(Nxt.send)].data.drop_interval_ms = 1000 ]_vars

\* a restart after the game was over: the game_over frame is still queued,
\* the state frame of the fresh engine follows it
C16_Witness ==
    /\ Cur.reader = "over" /\ Cur.msg.type = "restart"
    /\ Fresh(Cur.game)
    /\ Len(Cur.send) = 2
    /\ Cur.send[1].type = "game_over"
    /\ Cur.send[2] = NewStateMessage(Cur.game, "reader")

\* a restart in the middle of a game that has a score
C16_WitnessPlaying ==
    /\ Cur.reader = "over" /\ Cur.msg.type = "restart"
    /\ Fresh(Cur.game)
    /\ \E i \in 1..Len(Cur.send) :
         /\ Cur.send[i].type = "state" /\ Cur.send[i].data.state = "playing"
         /\ Cur.send[i].data.score > 0
    /\ Cur.send[Len(Cur.send)] = NewStateMessage(Cur.game, "reader")

\* ------------------------------------------------------------- heartbeat

\* the session is up: registered, transport and queue open, its reader in
\* its loop and its heartbeat task waiting
Alive(s) ==
    /\ 1 \in server.clients
    /\ s.conn = "open" /\ ~s.sendClosed
    /\ s.reader \in {"read", "handle", "apply"}
    /\ s.heartbeat = "select"

\* C17: a session whose client answers every ping with an application-level
\* pong within the window is never torn down by the heartbeat, neither by
\* the timeout timer nor by the read deadline
C17_AnsweringClientKept ==
    Cur.env.pong = "app" /\ Cur.env.left > 0 => Alive(Cur)

TimeoutClose == [code |-> 1000, reason |-> "timeout"]

\* C18: a session that has received no pong of either kind for PongTimeout
\* is sent the normal-closure close frame with reason "timeout" before its
\* transport is closed, and once the tasks have come to rest the transport
\* is closed and the session is out of the live set
C18_SilentClientClosed ==
    /\ now >= Cur.heard + PongTimeout /\ Cur.conn = "closed" =>
         \E i \in 1..Len(Cur.closes) : Cur.closes[i] = TimeoutClose
    /\ now > Cur.heard + PongTimeout =>
         Cur.conn = "closed" /\ 1 \notin server.clients

\* ------------------------------------------------- the server's live set

\* session c has been cleaned up after its reader left its loop
CleanedUp(c) ==
    /\ c \notin server.clients
    /\ Ses(c).sendClosed
    /\ Ses(c).conn = "closed"

\* the sessions whose reader is in its loop or about to enter it
Reading == {c \in DOMAIN server.sessions : Ses(c).reader \in {"start", "read"}}

C20_GracefulShutdown ==
    /\ [][ ~server.down /\ server'.down =>
             \A c \in server.clients :
                /\ server'.sessions[c].sendClosed
                /\ server'.sessions[c].conn = "closed" =>
                     \E i \in 1..Len(server'.sessions[c].closes) :
                        server'.sessions[c].closes[i].code = 1000 ]_vars
    /\ [](server.down => server.clients = {})

\* ---------------------------------------------- the engine and its objects
\* The engine holds its board and its two pieces by pointer.  heap.obj maps
\* an address to the object stored there; heap.board, heap.current and
\* heap.next are the engine's three pointers; heap.shot is the snapshot
\* taken last, its three pointers and its scalars, with the contents it had
\* when it was taken (was).
MaxCalls == 3

Nil == 0

NoShot == [taken |-> FALSE]

\* the objects of an engine whose fields have the values of g
HeapOf(g) ==
    [obj |-> << g.board, g.current, g.next >>, board |-> 1, current |-> 2, next |-> 3,
     shot |-> NoShot]

\* what the pointers of the engine point to
Deref(h, id) == IF id = Nil THEN NilPiece ELSE h.obj[id]

\* the operations of the engine
EngineCalls ==
    {"MoveLeft", "MoveRight", "MoveDown", "HardDrop", "Rotate", "Pause", "Resume", "Update"}

Call(op, g, t, sh) ==
    CASE op = "MoveLeft" -> MoveLeft(g).g
      [] op = "MoveRight" -> MoveRight(g).g
      [] op = "MoveDown" -> MoveDown(g, sh).g
      [] op = "HardDrop" -> HardDrop(g, sh).g
      [] op = "Rotate" -> Rotate(g).g
      [] op = "Pause" -> Pause(g)
      [] op = "Resume" -> Resume(g, t)
      [] op = "Update" -> Update(g, t, sh).g

\* The objects after an operation took the engine from g to g2.  The board
\* and the current piece are changed in place (the methods of Board and
\* Piece have pointer receivers).  When the operation locked the piece (the
\* generator was drawn from), spawnPiece made the engine's current pointer
\* the next pointer and prepareNext stored a new piece from the generator in
\* next; the locked piece stays where it landed.
InPlace(h, op, g, g2) ==
    IF g2.generator # g.generator
    THEN LET landed == IF op = "HardDrop" THEN PieceHardDrop(g.current, g.board).p
                       ELSE g.current
         IN  [h EXCEPT !.obj = Append([@ EXCEPT ![h.board] = g2.board,
                                                ![h.current] = landed], g2.next),
                       !.current = h.next,
                       !.next = Len(h.obj) + 1]
    ELSE [h EXCEPT !.obj = [@ EXCEPT ![h.board] = g2.board, ![h.current] = g2.current]]

\* mutant: the snapshot hands out the engine's own piece (as GetGameState does)
CopyPiece_Shared(h, id) == [h |-> h, id |-> id]

\* GetStateSnapshot's copy of a piece: a new Piece with the fields of the
\* engine's, nil for nil
CopyPiece(h, id) ==
    IF id = Nil THEN [h |-> h, id |-> Nil]
    ELSE [h |-> [h EXCEPT !.obj = Append(@, h.obj[id])], id |-> Len(h.obj) + 1]

\* GetStateSnapshot's copy of the board: a new matrix of colour strings
CopyBoard(h, id) ==
    [h |-> [h EXCEPT !.obj = Append(@, h.obj[id])], id |-> Len(h.obj) + 1]

\* Game.GetStateSnapshot on the objects of the engine
TakeSnapshot(h, g) ==
    LET b == CopyBoard(h, h.board)
        c == CopyPiece(b.h, h.current)
        n == CopyPiece(c.h, h.next)
    IN  [n.h EXCEPT !.shot =
            [taken |-> TRUE, board |-> b.id, current |-> c.id, next |-> n.id,
             state |-> StateString(g.state), score |-> g.score, level |-> g.level,
             lines |-> g.lines, drop_interval_ms |-> g.dropInterval,
             was |-> GetStateSnapshot(g)]]

\* the snapshot as its holder reads it now
ShotNow(h) ==
    [board |-> h.obj[h.shot.board], current_piece |-> Deref(h, h.shot.current),
     next_piece |-> Deref(h, h.shot.next), state |-> h.shot.state,
     score |-> h.shot.score, level |-> h.shot.level, lines |-> h.shot.lines,
     drop_interval_ms |-> h.shot.drop_interval_ms]

InitSnapshot ==
    /\ \/ \E sh \in Shuffles : game = New(sh, 0)
       \/ \E sp \in StartPoints : game = ReplayTo(Scripts[sp[1]], sp[2])
    /\ heap = HeapOf(game)
    /\ now \in {0, 1000}
    /\ last = NoOp
    /\ steps = 0
    /\ clear = ClearIdle
    /\ server = NoServer
    /\ client = NoClient
    /\ locks = NoLocks
    /\ bag = NoBag

\* one operation of the engine
DoCall ==
    /\ steps < MaxCalls
    /\ \E op \in EngineCalls : \E sh \in RefillChoices(game.generator) :
         LET g2 == Call(op, game, now, sh)
         IN  /\ game' = g2
             /\ heap' = InPlace(heap, op, game, g2)
             /\ last' = Called(op, g2 # game, 0)
    /\ steps' = steps + 1
    /\ UNCHANGED <<now, clear, server, client, locks, bag>>

\* the writer or the ticker takes a snapshot
DoSnapshot ==
    /\ steps < MaxCalls
    /\ heap' = TakeSnapshot(heap, game)
    /\ last' = Called("GetStateSnapshot", FALSE, 0)
    /\ steps' = steps + 1
    /\ UNCHANGED <<game, now, clear, server, client, locks, bag>>

NextSnapshot == DoCall \/ DoSnapshot

SpecSnapshot == InitSnapshot /\ [][NextSnapshot]_vars

\* the engine's pointers lead to the values of its fields
HeapAgrees ==
    /\ heap.obj[heap.board] = game.board
    /\ Deref(heap, heap.current) = game.current
    /\ Deref(heap, heap.next) = game.next

\* C21: a snapshot, once taken, reads as it did when it was taken whatever
\* the engine does afterwards; its board and its pieces are objects of their
\* own, none of them one of the engine's, and its current piece and its next
\* piece are two objects.
C21_SnapshotIndependent ==
    heap.shot.taken =>
        /\ ShotNow(heap) = heap.shot.was
        /\ {heap.shot.board, heap.shot.current, heap.shot.next}
             \cap {heap.board, heap.current, heap.next} = {}
        /\ heap.shot.current # heap.shot.next
        /\ heap.shot.board \notin {heap.shot.current, heap.shot.next}

\* a snapshot was taken, the piece it shows was locked and the piece it
\* shows as next has moved since
C21_Witness ==
    /\ heap.shot.taken
    /\ heap.shot.was.next_piece.Type = game.current.Type
    /\ heap.shot.was.next_piece # game.current
    /\ heap.shot.was.board # game.board

\* ------------------------------------------------- the sequence of pieces
\* bag.drawn: the kinds the generator has returned, in the order of the
\* calls of Next; bag.became: the kinds of the pieces that have been the
\* engine's current piece, in order.
MaxPieces == 8

\* what Next returns, call after call, while it takes the generator from
\* gen to gen2 (no operation of the engine draws more than twice)
RECURSIVE Draws(_, _, _, _)
Draws(gen, gen2, sh, n) ==
    IF gen = gen2 \/ n = 0 THEN << >>
    ELSE LET d == GenNext(gen, sh)
         IN  << d.piece.Type >> \o Draws(d.gen, gen2, sh, n - 1)

\* game.New: the generator is drawn from twice
InitBag ==
    /\ \E sh \in Shuffles :
         /\ game = New(sh, 0)
         /\ bag = [drawn |-> Draws(NewGenerator, game.generator, sh, 2),
                   became |-> << game.current.Type >>]
    /\ now = 0
    /\ last = NoOp
    /\ steps = 0
    /\ clear = ClearIdle
    /\ server = NoServer
    /\ heap = NoHeap
    /\ client = NoClient
    /\ locks = NoLocks

\* the player shifts the piece that has just spawned, once
BagShift ==
    /\ Len(bag.became) < MaxPieces
    /\ game.current.X = NewPiece(game.current.Type).X
    /\ \E r \in {MoveLeft(game), MoveRight(game)} :
         /\ game' = r.g
         /\ last' = Called("Move", r.ret, 0)
    /\ UNCHANGED <<now, steps, clear, server, heap, client, locks, bag>>

\* the player drops the piece: it locks, and the next piece becomes current
BagDrop ==
    /\ Len(bag.became) < MaxPieces
    /\ game.state = StatePlaying
    /\ \E sh \in RefillChoices(game.generator) :
         LET r == HardDrop(game, sh)
         IN  /\ game' = r.g
             /\ last' = Called("HardDrop", FALSE, r.ret)
             /\ bag' = [drawn |-> bag.drawn \o Draws(game.generator, r.g.generator, sh, 2),
                        became |-> Append(bag.became, r.g.current.Type)]
    /\ UNCHANGED <<now, steps, clear, server, heap, client, locks>>

NextBag == BagShift \/ BagDrop

SpecBag == InitBag /\ [][NextBag]_vars

\* C22: the k-th piece to become current is the k-th piece the generator
\* returned and the piece shown as next is the (k+1)-th, none skipped and
\* none used twice; so every aligned block of seven consecutive current
\* pieces holds each of the seven kinds once.
C22_BagOrder ==
    LET k == Len(bag.became)
    IN  /\ Len(bag.drawn) = k + 1
        /\ \A i \in 1..k : bag.became[i] = bag.drawn[i]
        /\ game.current.Type = bag.drawn[k]
        /\ game.next.Type = bag.drawn[k + 1]
        /\ \A j \in 1..(k \div 7) :
             {bag.became[i] : i \in (7 * (j - 1) + 1)..(7 * j)} = AllTypes

\* a whole block of seven has been played, with pieces shifted on the way,
\* and the first piece of the second block is current
C22_Witness ==
    /\ Len(bag.became) = 8
    /\ game.state = StatePlaying
    /\ game.board # NewBoard
    /\ \E y \in 0..(Height - 1) : game.board[y][2] # ColorEmpty

\* ------------------------------------------------------ pause and resume
\* The engine as in Spec; the record of a Pause keeps the engine as it was
\* before the call (before), the record of a Resume keeps the record of the
\* call it follows (follows).
PauseNow ==
    /\ steps < MaxSteps
    /\ game' = Pause(game)
    /\ last' = [op |-> "Pause", ok |-> FALSE, dist |-> 0, px |-> game.current.X,
                py |-> game.current.Y, before |-> game]
    /\ steps' = steps + 1
    /\ UNCHANGED <<now, clear, server, heap, client, locks, bag>>

ResumeNow ==
    /\ steps < MaxSteps
    /\ game' = Resume(game, now)
    /\ last' = [op |-> "Resume", ok |-> FALSE, dist |-> 0, px |-> game.current.X,
                py |-> game.current.Y, follows |-> last]
    /\ steps' = steps + 1
    /\ UNCHANGED <<now, clear, server, heap, client, locks, bag>>

NextPause ==
    \/ DoMoveLeft
    \/ DoMoveRight
    \/ DoMoveDown
    \/ DoHardDrop
    \/ DoRotate
    \/ PauseNow
    \/ ResumeNow
    \/ DoUpdate
    \/ ClockAdvance

SpecPause == Init /\ [][NextPause]_vars

\* a Resume has just followed a Pause that was called on a Playing engine
PausedAndResumed ==
    /\ last.op = "Resume"
    /\ last.follows.op = "Pause"
    /\ last.follows.before.state = StatePlaying

\* C23: Pause immediately followed by Resume on a Playing engine leaves the
\* board, the current piece, the next piece, the score, the lines, the level
\* and the state as they were; only lastDrop changes (it is set to the time
\* of the Resume).
C23_PauseResume ==
    PausedAndResumed =>
        LET g == last.follows.before
        IN  /\ game.board = g.board
            /\ game.current = g.current
            /\ game.next = g.next
            /\ game.score = g.score
            /\ game.lines = g.lines
            /\ game.level = g.level
            /\ game.state = g.state
            /\ game = [g EXCEPT !.lastDrop = now]

\* the pair was called in mid-game, some time after the last drop
C23_Witness ==
    /\ PausedAndResumed
    /\ game.lastDrop # last.follows.before.lastDrop
    /\ game.board # NewBoard

\* ------------------------------------------- frames on the wire (client)
\* A frame is a sequence of bytes.  client.queue: the frames in the server
\* session's send queue; client.wire: the WebSocket message in flight, if
\* any, with the frames it was written from (batch); client.got: the
\* frames splitMessages returned for the message read last; client.split
\* tells that a message has been read.
MaxLen == 2
MaxFrames == 2

Newline == 10

Bytes == {Newline, 123, 125}

\* the byte strings of up to n bytes
RECURSIVE Strings(_)
Strings(n) ==
    IF n = 0 THEN {<< >>}
    ELSE LET shorter == Strings(n - 1)
         IN  shorter \cup {Append(f, b) : f \in {g \in shorter : Len(g) = n - 1}, b \in Bytes}

\* the queues of 1 to n frames
RECURSIVE Queues(_)
Queues(n) ==
    IF n = 1 THEN {<< f >> : f \in Strings(MaxLen)}
    ELSE LET shorter == Queues(n - 1)
         IN  shorter \cup {Append(q, f) : q \in {r \in shorter : Len(r) = n - 1},
                                          f \in Strings(MaxLen)}

\* writePump's message: the frame received, then '\n' and a frame for each
\* of the frames queued
RECURSIVE WriteQueued(_, _)
WriteQueued(w, frames) ==
    IF frames = << >> THEN w
    ELSE WriteQueued(w \o << Newline >> \o Head(frames), Tail(frames))

\* mutant: the delimiter starts the following segment
RECURSIVE splitFunc_KeepsDelimiter(_, _, _, _, _)
splitFunc_KeepsDelimiter(data, delimiter, i, start, result) ==
    IF i > Len(data)
    THEN IF start <= Len(data) THEN Append(result, SubSeq(data, start, Len(data)))
         ELSE result
    ELSE IF data[i] = delimiter
    THEN splitFunc_KeepsDelimiter(data, delimiter, i + 1, i,
                   IF start < i THEN Append(result, SubSeq(data, start, i - 1)) ELSE result)
    ELSE splitFunc_KeepsDelimiter(data, delimiter, i + 1, start, result)

\* splitFunc from byte i on (bytes are counted from 1)
RECURSIVE splitFunc(_, _, _, _, _)
splitFunc(data, delimiter, i, start, result) ==
    IF i > Len(data)
    THEN IF start <= Len(data) THEN Append(result, SubSeq(data, start, Len(data)))
         ELSE result
    ELSE IF data[i] = delimiter
    THEN splitFunc(data, delimiter, i + 1, i + 1,
                   IF start < i THEN Append(result, SubSeq(data, start, i - 1)) ELSE result)
    ELSE splitFunc(data, delimiter, i + 1, start, result)

splitMessages(data) == splitFunc(data, Newline, 1, 1, << >>)

InitWire ==
    /\ \E q \in Queues(MaxFrames) :
         client = [queue |-> q, wire |-> << >>, batch |-> << >>, got |-> << >>,
                   split |-> FALSE]
    /\ game = New(<< TypeI, TypeO, TypeT, TypeS, TypeZ, TypeJ, TypeL >>, 0)
    /\ now = 0
    /\ last = NoOp
    /\ steps = 0
    /\ clear = ClearIdle
    /\ server = NoServer
    /\ heap = NoHeap
    /\ locks = NoLocks
    /\ bag = NoBag

\* the server's writer receives a frame and writes it with the n frames
\* that are queued at that moment as one message
WireWrite ==
    /\ client.wire = << >>
    /\ client.queue # << >>
    /\ \E n \in 0..(Len(client.queue) - 1) :
         LET batch == SubSeq(client.queue, 1, n + 1)
         IN  client' = [client EXCEPT
                 !.queue = SubSeq(client.queue, n + 2, Len(client.queue)),
                 !.wire = << WriteQueued(Head(batch), Tail(batch)) >>,
                 !.batch = batch]
    /\ UNCHANGED <<game, now, last, steps, clear, server, heap, locks, bag>>

\* the client reads the message and splits it
WireSplit ==
    /\ client.wire # << >>
    /\ client' = [client EXCEPT !.wire = << >>,
                                !.got = splitMessages(client.wire[1]),
                                !.split = TRUE]
    /\ UNCHANGED <<game, now, last, steps, clear, server, heap, locks, bag>>

NextWire == WireWrite \/ WireSplit

SpecWire == InitWire /\ [][NextWire]_vars

\* a frame as the server makes them: not empty, no newline in it
WellFormed(f) == f # << >> /\ \A i \in 1..Len(f) : f[i] # Newline

\* C24: n >= 1 frames, each non-empty and free of newlines, written as one
\* message by the server's writer come out of the client's splitMessages as
\* exactly those n frames in that order; whatever was written, no segment
\* returned is empty.
C24_SplitInvertsJoin ==
    (client.split /\ client.wire = << >>) =>
        /\ (\A i \in 1..Len(client.batch) : WellFormed(client.batch[i]))
              => client.got = client.batch
        /\ \A i \in 1..Len(client.got) : client.got[i] # << >>

\* two frames of different content went out in one message and were split
C24_Witness ==
    /\ client.split
    /\ client.wire = << >>
    /\ Len(client.batch) = 2
    /\ WellFormed(client.batch[1])
    /\ WellFormed(client.batch[2])
    /\ client.batch[1] # client.batch[2]
    /\ client.got = client.batch

\* a message with an empty segment was split
C24_WitnessEmpty ==
    /\ client.split
    /\ client.wire = << >>
    /\ client.batch = << << >>, << 125 >> >>
    /\ client.got = << << 125 >> >>

\* ------------------------------------------------ the reference client
\* wsclient.Client and the tasks it starts.  client.conn is the field conn
\* (an index into client.conns); a connection has the client's end (local:
\* open or closed), the server's end (peer: up or gone) and the message on
\* its way to the client, if any (inbox; a message is the sequence of
\* frames splitMessages returns for it).  client.send is the send channel
\* with sendClosed telling that it was closed.  There is one writePump at a
\* time (writer: its position, the retry counter i of its reconnectLoop and
\* the time its Sleep has left) and one listen task for every connection made
\* (listeners: position, the connection its ReadMessage was called on, the
\* frames of the message left to handle).  passed: the frame onStateChange
\* was called with last.  event: the reconnectLoop that ran last, with the
\* number of Connect calls it has made (dials), the time that has passed
\* since the last of them, or since the disconnect before the first
\* (waited), and whether that call succeeded (ok).  crashed: a task panicked, which ends the process, and
\* cause says on what.
maxRetries == 5

retryDelay == 3000

MaxConns == 2

PingFrame == Frame("ping")

PongFrame == Frame("pong")

\* what a server can send: a ping, a state frame, text that is not JSON
ServerFrames == {PingFrame, Frame("state"), Malformed}

\* the messages a server writes: one frame, or two in a batch
ServerMessages == {<< f >> : f \in ServerFrames} \cup {<< PingFrame, Frame("state") >>}

NoEvent == [dials |-> 0, waited |-> 0, ok |-> FALSE]

\* a listen task that has called ReadMessage on connection k
NewListener(k) == [pc |-> "blocked", conn |-> k, msgs |-> << >>]

DoneListener == [pc |-> "done", conn |-> Nil, msgs |-> << >>]

NewWriter == [pc |-> "select", i |-> 0, left |-> 0]

NewConn == [local |-> "open", peer |-> "up", inbox |-> << >>]

\* wsclient.New followed by a Connect that succeeded
Connected ==
    [conn |-> 1, conns |-> << NewConn >>, connected |-> TRUE, reconnect |-> TRUE,
     send |-> << >>, sendClosed |-> FALSE,
     writer |-> NewWriter, listeners |-> << NewListener(1) >>,
     crashed |-> FALSE, cause |-> "", passed |-> Malformed, event |-> NoEvent]

\* the process after a panic
Panicked(why) == [Connected EXCEPT !.crashed = TRUE, !.cause = why, !.connected = FALSE]

InitClient ==
    /\ client = Connected
    /\ game = New(<< TypeI, TypeO, TypeT, TypeS, TypeZ, TypeJ, TypeL >>, 0)
    /\ now = 0
    /\ last = NoOp
    /\ steps = 0
    /\ clear = ClearIdle
    /\ server = NoServer
    /\ heap = NoHeap
    /\ locks = NoLocks
    /\ bag = NoBag

ClientRest == UNCHANGED <<game, now, last, steps, clear, server, heap, locks, bag>>

\* a read or a write on connection k fails
Broken(c, k) == c.conns[k].local = "closed" \/ c.conns[k].peer = "gone"

\* whether a WriteMessage on connection k succeeds: not on a connection
\* closed here; on one whose peer is gone it may, the frame is lost then
WriteOutcomes(c, k) ==
    IF c.conns[k].local = "closed" THEN {FALSE}
    ELSE IF c.conns[k].peer = "gone" THEN BOOLEAN
    ELSE {TRUE}

\* conn.Close() on connection k: what was on its way is lost, and the
\* server's end goes with it
CloseConn(c, k) ==
    [c EXCEPT !.conns[k] = [local |-> "closed", peer |-> "gone", inbox |-> << >>]]

\* close(c.send): closing a closed channel panics
CloseSend(c) ==
    IF c.sendClosed THEN Panicked("close of closed channel") ELSE [c EXCEPT !.sendClosed = TRUE]

\* listen: ReadMessage returns, a message (split into its frames) or an
\* error; on an error onError is called, the send channel is closed and the
\* task ends
ListenReturn(l) ==
    /\ ~client.crashed
    /\ client.listeners[l].pc = "blocked"
    /\ LET k == client.listeners[l].conn
       IN  \/ /\ client.conns[k].local = "open"
              /\ client.conns[k].inbox # << >>
              /\ client' = [client EXCEPT !.conns[k].inbox = << >>,
                                          !.listeners[l].msgs = client.conns[k].inbox[1],
                                          !.listeners[l].pc = "handle"]
           \/ /\ Broken(client, k)
              /\ client.conns[k].inbox = << >>
              /\ LET c1 == CloseSend(client)
                 IN  client' = IF c1.crashed THEN c1
                               ELSE [c1 EXCEPT !.listeners[l] = DoneListener]
    /\ ClientRest

\* listen, the body of its loop over the frames of a message: a frame that
\* parses and has type ping is answered with a pong through the send
\* channel (a send on a closed channel panics, a full channel skips the
\* pong); any other frame goes to onStateChange
Answer(c, msg) ==
    IF msg.json /\ msg.type = "ping"
    THEN IF c.sendClosed THEN Panicked("listen: send on closed channel")
         ELSE IF Len(c.send) < QueueCap THEN [c EXCEPT !.send = Append(@, PongFrame)]
         ELSE c
    ELSE [c EXCEPT !.passed = msg]

\* listen handles the next frame of the message; after the last frame it
\* calls ReadMessage on the connection that c.conn names by then
ListenHandle(l) ==
    /\ ~client.crashed
    /\ client.listeners[l].pc = "handle"
    /\ LET msgs == client.listeners[l].msgs
           c1 == Answer(client, Head(msgs))
       IN  client' = IF c1.crashed THEN c1
                     ELSE IF Tail(msgs) = << >>
                     THEN [c1 EXCEPT !.listeners[l] = NewListener(client.conn)]
                     ELSE [c1 EXCEPT !.listeners[l].msgs = Tail(msgs)]
    /\ ClientRest

\* writePump: a frame is received from the send channel and written; when
\* the channel is closed and empty a close frame is written instead.  The
\* task goes on to handleDisconnect when the write fails or the channel is
\* closed.
WriterSelect ==
    /\ ~client.crashed
    /\ client.writer.pc = "select"
    /\ \/ /\ client.send # << >>
          /\ \E ok \in WriteOutcomes(client, client.conn) :
               IF ok THEN client' = [client EXCEPT !.send = Tail(@)]
               ELSE client' = [client EXCEPT !.send = Tail(@), !.writer.pc = "disconnect"]
       \/ /\ client.send = << >>
          /\ client.sendClosed
          /\ client' = [client EXCEPT !.writer.pc = "disconnect"]
    /\ ClientRest

\* handleDisconnect up to the call of reconnectLoop
handleDisconnect ==
    /\ ~client.crashed
    /\ client.writer.pc = "disconnect"
    /\ LET c1 == IF client.connected
                 THEN [CloseConn(client, client.conn) EXCEPT !.connected = FALSE]
                 ELSE client
       IN  client' = [c1 EXCEPT !.writer = [pc |-> IF c1.reconnect THEN "loop" ELSE "done",
                                            i |-> 0, left |-> 0],
                                !.event = IF c1.reconnect THEN NoEvent ELSE @]
    /\ ClientRest

\* mutant: the loop makes one attempt more than maxRetries
LoopGoesOn_OneMore(i) == i <= maxRetries

\* reconnectLoop: the condition of its for loop
LoopGoesOn(i) == i < maxRetries

\* mutant: the dial follows at once
Sleep_NoDelay(w) == [w EXCEPT !.pc = "asleep", !.left = 0]

\* time.Sleep(c.retryDelay) is called by the task w
Sleep(w) == [w EXCEPT !.pc = "asleep", !.left = retryDelay]

\* reconnectLoop: the loop condition, then time.Sleep is called
ReconnectSleep ==
    /\ ~client.crashed
    /\ client.writer.pc = "loop"
    /\ IF LoopGoesOn(client.writer.i)
       THEN client' = [client EXCEPT !.writer = Sleep(@)]
       ELSE client' = [client EXCEPT !.writer = [pc |-> "done", i |-> 0, left |-> 0]]
    /\ ClientRest

\* reconnectLoop: Sleep has returned and Connect is called; the dial
\* succeeds or fails.  On success Connect stores the connection, sets
\* connected and starts a writePump and a listen task, and the loop returns.
ReconnectConnect ==
    /\ ~client.crashed
    /\ client.writer.pc = "asleep"
    /\ client.writer.left = 0
    /\ \E ok \in IF Len(client.conns) < MaxConns THEN BOOLEAN ELSE {FALSE} :
         LET logged == [client EXCEPT !.event = [dials |-> @.dials + 1, waited |-> 0, ok |-> ok]]
         IN  IF ok
             THEN client' = [logged EXCEPT !.conns = Append(@, NewConn),
                                           !.conn = Len(client.conns) + 1,
                                           !.connected = TRUE,
                                           !.writer = NewWriter,
                                           !.listeners = Append(@, NewListener(Len(client.conns) + 1))]
             ELSE client' = [logged EXCEPT !.writer.i = @ + 1, !.writer.pc = "loop"]
    /\ ClientRest

\* time passes while the reconnect loop sleeps
ClientClock ==
    /\ ~client.crashed
    /\ client.writer.pc = "asleep"
    /\ client.writer.left > 0
    /\ LET dt == retryDelay \div 2
       IN  client' = [client EXCEPT !.writer.left = @ - dt, !.event.waited = @ + dt]
    /\ ClientRest

\* the server writes a message on the connection (one is in flight at a time)
ServerWrites ==
    /\ ~client.crashed
    /\ \E m \in ServerMessages :
         LET k == client.conn
         IN  /\ client.conns[k].peer = "up"
             /\ client.conns[k].local = "open"
             /\ client.conns[k].inbox = << >>
             /\ client' = [client EXCEPT !.conns[k].inbox = << m >>]
    /\ ClientRest

\* the server goes away or closes the connection
ServerDrops ==
    /\ ~client.crashed
    /\ client.conns[client.conn].peer = "up"
    /\ client.conns[client.conn].local = "open"
    /\ client' = [client EXCEPT !.conns[client.conn].peer = "gone"]
    /\ ClientRest

\* Client.Send called by the user interface on a client that is connected
\* (otherwise, and when the channel is full, it returns ErrNotConnected)
UserSend ==
    /\ ~client.crashed
    /\ client.connected
    /\ Len(client.send) < QueueCap
    /\ client' = IF client.sendClosed THEN Panicked("Send: send on closed channel")
                 ELSE [client EXCEPT !.send = Append(@, Frame("move_left"))]
    /\ ClientRest

\* Client.Close called by the user interface
UserClose ==
    /\ ~client.crashed
    /\ client.reconnect
    /\ client' = CloseSend(CloseConn([client EXCEPT !.reconnect = FALSE, !.connected = FALSE],
                                     client.conn))
    /\ ClientRest

\* the steps of the listen tasks
ListenSteps == \E l \in 1..Len(client.listeners) : ListenReturn(l) \/ ListenHandle(l)

\* the steps of the writePump and of the reconnectLoop it ends in
WriterSteps ==
    \/ WriterSelect
    \/ handleDisconnect
    \/ ReconnectSleep
    \/ ReconnectConnect
    \/ ClientClock

NextClient == ListenSteps \/ WriterSteps \/ ServerWrites \/ ServerDrops \/ UserSend \/ UserClose

SpecClient == InitClient /\ [][NextClient]_vars

\* the client of a server that sends nothing: a listen task only ever
\* returns from ReadMessage with an error
ReadSteps == \E l \in 1..Len(client.listeners) : ListenReturn(l)

NextReconnect == ReadSteps \/ WriterSteps \/ ServerDrops \/ UserSend \/ UserClose

\* every task that can run does run, and time passes
SpecReconnect ==
    InitClient /\ [][NextReconnect]_vars /\ WF_vars(ReadSteps) /\ WF_vars(WriterSteps)

IsPing(msg) == msg.json /\ msg.type = "ping"

\* listen task l handles the frame at the head of its message in this step
Handles(l) ==
    /\ client.listeners[l].pc = "handle"
    /\ ~client'.crashed
    /\ client'.listeners[l] # client.listeners[l]

\* C25: for every ping frame received while connected the client puts one
\* pong frame into its send queue and does not call the state-change
\* callback; every other frame is passed to the callback, in order.
C25_PongPerPing ==
    [][ /\ (client.connected /\ client'.crashed) => client'.cause # "listen: send on closed channel"
        /\ \A l \in 1..Len(client.listeners) :
             Handles(l) =>
                LET h == Head(client.listeners[l].msgs)
                IN  IF IsPing(h)
                    THEN /\ client.connected => client'.send = Append(client.send, PongFrame)
                         /\ client'.passed = client.passed
                    ELSE /\ client'.passed = h
                         /\ client'.send = client.send ]_vars

\* a dial of the reconnect loop is made in this step
Dials == client'.event.dials = client.event.dials + 1

\* the reconnect loop is running
Looping == ~client.crashed /\ client.writer.pc \in {"loop", "asleep"}

\* C26: after a disconnect with reconnect enabled the connection attempts
\* come one after the other, each at least the retry delay after the
\* disconnect or the attempt before it; no attempt follows a success, and
\* none follows maxRetries failures in a row, so that a disconnect is
\* followed by at most maxRetries attempts; the loop ends.
C26_ReconnectLoop ==
    /\ [][ Dials => /\ ~client.event.ok
                    /\ client.event.dials < maxRetries
                    /\ client.event.waited >= retryDelay ]_vars
    /\ [](client.event.dials <= maxRetries)
    /\ (Looping ~> ~Looping)

\* the loop has given up after maxRetries failures
C26_Witness ==
    /\ ~client.crashed
    /\ client.writer.pc = "done"
    /\ client.reconnect
    /\ client.event = [dials |-> maxRetries, waited |-> 0, ok |-> FALSE]

\* the third attempt has succeeded
C26_WitnessSuccess ==
    /\ ~client.crashed
    /\ client.connected
    /\ client.event.dials = 3
    /\ client.event.ok

\* --------------------------------------------------- the terminal client
\* The drawing code of pkg/tui comes in two versions, the one with
\* isValidPieceType (DrawBoard, getPieceShape) and the one of draw.go
\* (DrawBoard_draw_go, getPieceShape_draw_go).  client.state is the state
\* frame to draw (its board and its current piece), client.display the
\* cells DrawBoard has computed and client.drawn the version that drew.
MaxOrdinal == 8

\* the ordinals a frame may carry as a piece type
Ordinals == -1..MaxOrdinal

\* no shape (nil)
NilShape == << >>

\* isValidPieceType
isValidPieceType(t) ==
    CASE t = TypeI \/ t = TypeO \/ t = TypeT \/ t = TypeS \/ t = TypeZ \/ t = TypeJ \/ t = TypeL
           -> TRUE
      [] OTHER -> FALSE

\* the map shapes of getPieceShape (the same in both versions); a key that
\* is not in the map yields nil
tuiShapes(t) ==
    CASE t = TypeI -> << <<1, 1, 1, 1>> >>
      [] t = TypeO -> << <<1, 1>>, <<1, 1>> >>
      [] t = TypeT -> << <<0, 1, 0>>, <<1, 1, 1>> >>
      [] t = TypeS -> << <<0, 1, 1>>, <<1, 1, 0>> >>
      [] t = TypeZ -> << <<1, 1, 0>>, <<0, 1, 1>> >>
      [] t = TypeJ -> << <<1, 0, 0>>, <<1, 1, 1>> >>
      [] t = TypeL -> << <<0, 0, 1>>, <<1, 1, 1>> >>
      [] OTHER -> NilShape

\* rotateShape: rotation times rotate90 (the client's rotate90 computes,
\* cell for cell, what the rotate90 of the piece package computes)
RECURSIVE rotateShape(_, _)
rotateShape(shape, rotation) ==
    IF rotation <= 0 THEN shape ELSE rotate90(rotateShape(shape, rotation - 1))

\* getPieceShape
getPieceShape(pieceData) ==
    LET baseShape == tuiShapes(pieceData.Type)
    IN  IF baseShape = NilShape THEN NilShape ELSE rotateShape(baseShape, pieceData.Rotation)

\* getPieceShape of draw.go
getPieceShape_draw_go(pieceData) == tuiShapes(pieceData.Type)

\* DrawBoard, its first loop: the display board, 20 rows of 10 cells, is
\* filled from the rows and cells that state.Board has
CopyCells(b) ==
    [row \in 0..(Height - 1) |-> [col \in 0..(Width - 1) |->
        IF row \in DOMAIN b /\ col \in DOMAIN b[row] THEN b[row][col] ELSE ""]]

\* DrawBoard, the loops of the overlay: the cells of the shape that are set
\* and fall on the board take the colour of the piece
Overlay(displayBoard, currentPiece, shape) ==
    [row \in 0..(Height - 1) |-> [col \in 0..(Width - 1) |->
        IF \E r \in 1..Len(shape) : \E c \in 1..Len(shape[r]) :
               /\ shape[r][c] = 1
               /\ currentPiece.Y + (r - 1) = row
               /\ currentPiece.X + (c - 1) = col
        THEN currentPiece.Color
        ELSE displayBoard[row][col]]]

\* DrawBoard up to the display board
DrawBoard(state) ==
    LET displayBoard == CopyCells(state.Board)
        currentPiece == state.CurrentPiece
    IN  IF isValidPieceType(currentPiece.Type) /\ currentPiece.Color # ""
        THEN LET shape == getPieceShape(currentPiece)
             IN  IF shape # NilShape THEN Overlay(displayBoard, currentPiece, shape)
                 ELSE displayBoard
        ELSE displayBoard

\* DrawBoard of draw.go up to the display board
DrawBoard_draw_go(state) ==
    LET displayBoard == CopyCells(state.Board)
        currentPiece == state.CurrentPiece
    IN  IF currentPiece.Type # 0
        THEN LET shape == getPieceShape_draw_go(currentPiece)
             IN  IF shape # NilShape THEN Overlay(displayBoard, currentPiece, shape)
                 ELSE displayBoard
        ELSE displayBoard

\* the boards of the frames drawn: an empty one, one from the middle of a
\* game, and one with no rows
DrawnBoards == {NewBoard, ReplayTo(Scripts[1], 43).board, [row \in {} |-> << >>]}

\* a state frame arrives
InitDraw ==
    /\ \E b \in DrawnBoards : \E t \in Ordinals : \E color \in {"", "#00FFFF"} :
       \E x \in {-1, 3, 8} : \E y \in {0, 10, 19} : \E rot \in 0..3 :
         client = [state |-> [Board |-> b,
                              CurrentPiece |-> [Type |-> t, Color |-> color, X |-> x, Y |-> y,
                                                Rotation |-> rot]],
                   display |-> CopyCells(b), drawn |-> ""]
    /\ game = New(<< TypeI, TypeO, TypeT, TypeS, TypeZ, TypeJ, TypeL >>, 0)
    /\ now = 0
    /\ last = NoOp
    /\ steps = 0
    /\ clear = ClearIdle
    /\ server = NoServer
    /\ heap = NoHeap
    /\ locks = NoLocks
    /\ bag = NoBag

\* the frame is drawn by the version with isValidPieceType
DoDrawBoard ==
    /\ client.drawn = ""
    /\ client' = [client EXCEPT !.display = DrawBoard(client.state), !.drawn = "part_004"]
    /\ ClientRest

\* the frame is drawn by the version of draw.go
DoDrawBoard_draw_go ==
    /\ client.drawn = ""
    /\ client' = [client EXCEPT !.display = DrawBoard_draw_go(client.state), !.drawn = "draw.go"]
    /\ ClientRest

NextDraw == DoDrawBoard \/ DoDrawBoard_draw_go

SpecDraw == InitDraw /\ [][NextDraw]_vars

\* the cells of the board that the piece covers
Covered(p) ==
    LET shape == rotateShape(shapes[p.Type], p.Rotation)
    IN  {rc \in (0..(Height - 1)) \X (0..(Width - 1)) :
            \E r \in 1..Len(shape) : \E c \in 1..Len(shape[r]) :
                shape[r][c] = 1 /\ p.Y + (r - 1) = rc[1] /\ p.X + (c - 1) = rc[2]}

\* C27: the client UI takes a piece as valid exactly when its type ordinal
\* is one of 0..6: isValidPieceType is true for I (0) through L and false
\* for every other ordinal, getPieceShape returns a shape for each of the
\* seven kinds and nil otherwise, and DrawBoard overlays a current piece of
\* kind I (type 0 never stands for a missing piece).
C27_ZeroIsAPiece ==
    LET p == client.state.CurrentPiece
    IN  /\ isValidPieceType(p.Type) <=> p.Type \in 0..6
        /\ (getPieceShape(p) # NilShape) <=> p.Type \in 0..6
        /\ (getPieceShape_draw_go(p) # NilShape) <=> p.Type \in 0..6
        /\ (client.drawn # "" /\ p.Type = TypeI /\ p.Color # "")
              => \A rc \in Covered(p) : client.display[rc[1]][rc[2]] = p.Color

\* ------------------------------------------ restart and the ticker (C28)
\* the engine the running tick has tested with IsPlaying: the engine of the
\* session, or the one a restart has replaced since the tick began
TickEngine(s) == IF s.old # << >> THEN s.old[1] ELSE s.game

\* C28: restart replaces the engine of the session atomically with respect
\* to the ticker: within one tick the playing check, Update, the state
\* snapshot and the game-over check act on one engine instance, so the
\* state frame of a tick shows the engine that tick has tested and updated,
\* and its game-over check and game_over frame are of that engine too.
C28_RestartAtomic ==
    [][ /\ (Cur.writer = "t_state" /\ Nxt.writer # "t_state" /\ Nxt.send # Cur.send) =>
              Enqueues(NewStateMessage(TickEngine(Cur), "ticker"))
        /\ (Cur.writer = "t_over" /\ Nxt.writer # "t_over") =>
              (Nxt.writer = "t_gameover" <=> TickEngine(Cur).state = StateGameOver)
        /\ (Cur.writer = "t_gameover" /\ Nxt.writer # "t_gameover" /\ Nxt.send # Cur.send) =>
              Enqueues(NewGameOverMessage(TickEngine(Cur), "ticker")) ]_vars

\* ------------------------------------------ the engine's lock (C29, C30)
\* One engine (game) used by the three tasks of a server with one session:
\* the session's reader (handleMessage), its ticker (updateGame) and the
\* admin fan-out (getClientsInfo).  locks holds the engine's mutex mu (w the
\* task that has it locked, r the tasks that have it read-locked), each
\* task's position pc (named after what the task does next), the operation
\* op a task has called, the local linesCleared n of lockAndSpawnLocked,
\* the snapshot shot a task is taking, what the unlocked getters returned
\* (over for the game_over frame, info for the admin), the rounds left to
\* each task, and stable, the engine as the last Unlock left it.
MaxRounds == 1

Movers == {"reader", "ticker"}
Tasks == Movers \cup {"admin"}

\* the commands of the reader modelled here
Commands == {"move_left", "move_down", "hard_drop", "pause", "resume"}

\* sync.RWMutex
Unlocked == [w |-> "", r |-> {}]
CanLock(mu) == mu.w = "" /\ mu.r = {}
\* mutant: RLock does not wait for the writer
CanRLock_Always(mu) == TRUE
CanRLock(mu) == mu.w = ""

NoSnapshot == [board |-> << >>, current_piece |-> NilPiece, next_piece |-> NilPiece,
               state |-> "", score |-> 0, level |-> 0, lines |-> 0, drop_interval_ms |-> 0]
NoOver == [score |-> 0, level |-> 0, lines |-> 0]
NoInfo == [gameState |-> "", score |-> 0, level |-> 0, lines |-> 0]

\* the engines the tasks start on: a new one, one whose next lock completes
\* a row (with the piece at the top and landed), one whose next lock ends
\* the game
AtRest(g) == [g EXCEPT !.current = PieceHardDrop(g.current, g.board).p]

LockGames ==
    LET g0 == New(<< TypeI, TypeO, TypeT, TypeS, TypeZ, TypeJ, TypeL >>, 0)
        g1 == ReplayTo(Scripts[1], 36)
        g2 == ReplayTo(Scripts[2], 14)
    IN  {g0, g1, AtRest(g1), g2}

InitLock ==
    /\ game \in LockGames
    /\ now \in {0, 1000}
    /\ locks = [mu |-> Unlocked,
                pc |-> [t \in Tasks |-> IF t = "reader" THEN "IsGameOver"
                                        ELSE IF t = "ticker" THEN "IsPlaying" ELSE "GetState"],
                op |-> [t \in Movers |-> ""],
                n |-> [t \in Movers |-> 0],
                shot |-> [t \in Movers |-> NoSnapshot],
                over |-> [t \in Movers |-> NoOver],
                info |-> NoInfo,
                left |-> [t \in Tasks |-> MaxRounds],
                stable |-> game]
    /\ last = NoOp
    /\ steps = 0
    /\ clear = ClearIdle
    /\ server = NoServer
    /\ heap = NoHeap
    /\ client = NoClient
    /\ bag = NoBag

LockRest == UNCHANGED <<now, last, steps, clear, server, heap, client, bag>>

\* where a task goes when its handler returns
Home(t) == IF t = "reader" THEN "IsGameOver" ELSE IF t = "ticker" THEN "IsPlaying" ELSE "GetState"

\* handleMessage up to its switch: c.game.IsGameOver() reads g.state with no
\* lock; a finished game answers with sendError and returns
ReaderGate ==
    /\ locks.pc["reader"] = "IsGameOver"
    /\ locks.left["reader"] > 0
    /\ \E cmd \in Commands :
         locks' = IF game.state = StateGameOver
                  THEN [locks EXCEPT !.left["reader"] = @ - 1]
                  ELSE [locks EXCEPT !.left["reader"] = @ - 1, !.op["reader"] = cmd,
                                     !.pc["reader"] = "Lock"]
    /\ UNCHANGED game
    /\ LockRest

\* updateGame: c.game.IsPlaying() reads g.state with no lock
TickerPlaying ==
    /\ locks.pc["ticker"] = "IsPlaying"
    /\ locks.left["ticker"] > 0
    /\ locks' = IF game.state = StatePlaying
                THEN [locks EXCEPT !.left["ticker"] = @ - 1, !.op["ticker"] = "update",
                                   !.pc["ticker"] = "Lock"]
                ELSE [locks EXCEPT !.left["ticker"] = @ - 1]
    /\ UNCHANGED game
    /\ LockRest

\* g.mu.Lock() of the operation called
Acquire(t) ==
    /\ locks.pc[t] = "Lock"
    /\ CanLock(locks.mu)
    /\ locks' = [locks EXCEPT !.mu.w = t, !.pc[t] = "body"]
    /\ UNCHANGED game
    /\ LockRest

\* the operation up to its return or its call of lockAndSpawnLocked: the
\* engine it leaves and whether it goes on to lock the piece
OpBody(op, g, t) ==
    CASE op = "move_left" -> [g |-> MoveLeft(g).g, locks |-> FALSE]
      [] op = "pause" -> [g |-> Pause(g), locks |-> FALSE]
      [] op = "resume" -> [g |-> Resume(g, t), locks |-> FALSE]
      [] op = "move_down" ->
           IF g.state # StatePlaying THEN [g |-> g, locks |-> FALSE]
           ELSE LET r == PieceMoveDown(g.current, g.board)
                IN  [g |-> [g EXCEPT !.current = r.p], locks |-> ~r.ret]
      [] op = "hard_drop" ->
           IF g.state # StatePlaying THEN [g |-> g, locks |-> FALSE]
           ELSE LET r == PieceHardDrop(g.current, g.board)
                IN  [g |-> [g EXCEPT !.current = r.p, !.score = g.score + r.ret * g.level],
                     locks |-> TRUE]
      [] OTHER ->
           IF g.state # StatePlaying THEN [g |-> g, locks |-> FALSE]
           ELSE IF t - g.lastDrop >= g.dropInterval
           THEN LET g1 == [g EXCEPT !.lastDrop = t]
                    r == PieceMoveDown(g1.current, g1.board)
                IN  [g |-> [g1 EXCEPT !.current = r.p], locks |-> ~r.ret]
           ELSE [g |-> g, locks |-> FALSE]

Body(t) ==
    /\ locks.pc[t] = "body"
    /\ LET b == OpBody(locks.op[t], game, now)
       IN  /\ game' = b.g
           /\ locks' = [locks EXCEPT !.pc[t] = IF b.locks THEN "LockPiece" ELSE "Unlock"]
    /\ LockRest

\* lockAndSpawnLocked, statement by statement
StepLockPiece(t) ==
    /\ locks.pc[t] = "LockPiece"
    /\ game' = [game EXCEPT !.board = LockPiece(game.board, game.current)]
    /\ locks' = [locks EXCEPT !.pc[t] = "ClearLines"]
    /\ LockRest

StepClearLines(t) ==
    /\ locks.pc[t] = "ClearLines"
    /\ LET cleared == ClearLines(game.board)
       IN  /\ game' = [game EXCEPT !.board = cleared.board]
           /\ locks' = [locks EXCEPT !.n[t] = cleared.ret, !.pc[t] = "updateScore"]
    /\ LockRest

StepUpdateScore(t) ==
    /\ locks.pc[t] = "updateScore"
    /\ game' = updateScore(game, locks.n[t])
    /\ locks' = [locks EXCEPT !.n[t] = 0, !.pc[t] = "spawnPiece"]
    /\ LockRest

StepSpawnPiece(t) ==
    /\ locks.pc[t] = "spawnPiece"
    /\ \E sh \in RefillChoices(game.generator) : game' = spawnPiece(game, sh)
    /\ locks' = [locks EXCEPT !.pc[t] = "prepareNext"]
    /\ LockRest

StepPrepareNext(t) ==
    /\ locks.pc[t] = "prepareNext"
    /\ \E sh \in RefillChoices(game.generator) : game' = prepareNext(game, sh)
    /\ locks' = [locks EXCEPT !.pc[t] = "Unlock"]
    /\ LockRest

\* the deferred g.mu.Unlock()
Release(t) ==
    /\ locks.pc[t] = "Unlock"
    /\ locks' = [locks EXCEPT !.mu.w = IF @ = t THEN "" ELSE @, !.stable = game,
                              !.op[t] = "", !.pc[t] = "RLock"]
    /\ UNCHANGED game
    /\ LockRest

\* sendState: g.mu.RLock() of GetStateSnapshot
AcquireRead(t) ==
    /\ locks.pc[t] = "RLock"
    /\ CanRLock(locks.mu)
    /\ locks' = [locks EXCEPT !.mu.r = @ \cup {t}, !.shot[t] = NoSnapshot, !.pc[t] = "board"]
    /\ UNCHANGED game
    /\ LockRest

\* GetStateSnapshot: the board is copied
SnapBoard(t) ==
    /\ locks.pc[t] = "board"
    /\ locks' = [locks EXCEPT !.shot[t].board = game.board, !.pc[t] = "pieces"]
    /\ UNCHANGED game
    /\ LockRest

\* GetStateSnapshot: the pieces are copied
SnapPieces(t) ==
    /\ locks.pc[t] = "pieces"
    /\ locks' = [locks EXCEPT !.shot[t].current_piece = game.current,
                              !.shot[t].next_piece = game.next, !.pc[t] = "scalars"]
    /\ UNCHANGED game
    /\ LockRest

\* GetStateSnapshot: state, score, level, lines and drop interval are read,
\* and the deferred g.mu.RUnlock()
SnapScalars(t) ==
    /\ locks.pc[t] = "scalars"
    /\ locks' = [locks EXCEPT !.shot[t].state = StateString(game.state),
                              !.shot[t].score = game.score,
                              !.shot[t].level = game.level,
                              !.shot[t].lines = game.lines,
                              !.shot[t].drop_interval_ms = game.dropInterval,
                              !.mu.r = @ \ {t}, !.pc[t] = "IsGameOver2"]
    /\ UNCHANGED game
    /\ LockRest

\* if c.game.IsGameOver(): g.state is read with no lock
CheckOver(t) ==
    /\ locks.pc[t] = "IsGameOver2"
    /\ locks' = [locks EXCEPT !.pc[t] = IF game.state = StateGameOver THEN "GetScore" ELSE Home(t)]
    /\ UNCHANGED game
    /\ LockRest

\* NewGameOverMessage: g.GetScore(), g.GetLevel(), g.GetLines(), no lock
OverScore(t) ==
    /\ locks.pc[t] = "GetScore"
    /\ locks' = [locks EXCEPT !.over[t] = [NoOver EXCEPT !.score = game.score],
                              !.pc[t] = "GetLevel"]
    /\ UNCHANGED game
    /\ LockRest

OverLevel(t) ==
    /\ locks.pc[t] = "GetLevel"
    /\ locks' = [locks EXCEPT !.over[t].level = game.level, !.pc[t] = "GetLines"]
    /\ UNCHANGED game
    /\ LockRest

OverLines(t) ==
    /\ locks.pc[t] = "GetLines"
    /\ locks' = [locks EXCEPT !.over[t].lines = game.lines, !.pc[t] = Home(t)]
    /\ UNCHANGED game
    /\ LockRest

\* getClientsInfo: client.game.GetState().String(), no lock
AdminState ==
    /\ locks.pc["admin"] = "GetState"
    /\ locks.left["admin"] > 0
    /\ locks' = [locks EXCEPT !.left["admin"] = @ - 1,
                              !.info = [NoInfo EXCEPT !.gameState = StateString(game.state)],
                              !.pc["admin"] = "GetScore"]
    /\ UNCHANGED game
    /\ LockRest

\* getClientsInfo: client.game.GetScore()
AdminScore ==
    /\ locks.pc["admin"] = "GetScore"
    /\ locks' = [locks EXCEPT !.info.score = game.score, !.pc["admin"] = "GetLevel"]
    /\ UNCHANGED game
    /\ LockRest

\* getClientsInfo: client.game.GetLevel()
AdminLevel ==
    /\ locks.pc["admin"] = "GetLevel"
    /\ locks' = [locks EXCEPT !.info.level = game.level, !.pc["admin"] = "GetLines"]
    /\ UNCHANGED game
    /\ LockRest

\* getClientsInfo: client.game.GetLines()
AdminLines ==
    /\ locks.pc["admin"] = "GetLines"
    /\ locks' = [locks EXCEPT !.info.lines = game.lines, !.pc["admin"] = "GetState"]
    /\ UNCHANGED game
    /\ LockRest

MoverSteps(t) ==
    \/ Acquire(t)
    \/ Body(t)
    \/ StepLockPiece(t)
    \/ StepClearLines(t)
    \/ StepUpdateScore(t)
    \/ StepSpawnPiece(t)
    \/ StepPrepareNext(t)
    \/ Release(t)
    \/ AcquireRead(t)
    \/ SnapBoard(t)
    \/ SnapPieces(t)
    \/ SnapScalars(t)
    \/ CheckOver(t)
    \/ OverScore(t)
    \/ OverLevel(t)
    \/ OverLines(t)

NextLock ==
    \/ ReaderGate
    \/ TickerPlaying
    \/ \E t \in Movers : MoverSteps(t)
    \/ AdminState
    \/ AdminScore
    \/ AdminLevel
    \/ AdminLines

SpecLock == InitLock /\ [][NextLock]_vars

\* the positions inside a mutating operation, from Lock to Unlock
MutPcs == {"body", "LockPiece", "ClearLines", "updateScore", "spawnPiece", "prepareNext",
           "Unlock"}

\* the engine operation op, as a whole, on engine g at time t
Whole(op, g, t, sh) ==
    CASE op = "move_left" -> MoveLeft(g).g
      [] op = "move_down" -> MoveDown(g, sh).g
      [] op = "hard_drop" -> HardDrop(g, sh).g
      [] op = "pause" -> Pause(g)
      [] op = "resume" -> Resume(g, t)
      [] OTHER -> Update(g, t, sh).g

\* C29: no two mutating operations on the engine (a command of the reader,
\* the ticker's Update) run at the same time: at most one task is between
\* Lock and Unlock, and what an operation leaves at its Unlock is the whole
\* operation applied to what the previous one left.  A snapshot never
\* observes an intermediate state of a mutation (a piece locked and the
\* full rows not yet cleared, current promoted and next not yet redrawn):
\* every snapshot taken is the snapshot of the engine as a completed
\* operation left it.
C29_MutualExclusion ==
    /\ [](Cardinality({t \in Movers : locks.pc[t] \in MutPcs}) <= 1)
    /\ [][\A t \in Movers :
            /\ (locks.pc[t] = "Unlock" /\ locks'.pc[t] # "Unlock") =>
                  \E sh \in Shuffles \cup {<< >>} :
                      game = Whole(locks.op[t], locks.stable, now, sh)
            /\ (locks.pc[t] = "scalars" /\ locks'.pc[t] # "scalars") =>
                  locks'.shot[t] = GetStateSnapshot(locks.stable)]_vars

\* a task is inside lockAndSpawnLocked, the piece locked and a full row
\* not yet cleared, while the other task waits to take its snapshot
C29_Witness ==
    \E t \in Movers : \E u \in Movers \ {t} :
        /\ locks.pc[t] = "ClearLines"
        /\ \E y \in 0..(Height - 1) : isLineComplete(game.board, y)
        /\ locks.pc[u] = "RLock"

\* a task has promoted next to current and not yet drawn the new next,
\* while the other task waits for the lock
C29_WitnessSpawn ==
    \E t \in Movers : \E u \in Movers \ {t} :
        /\ locks.pc[t] = "prepareNext"
        /\ game.current = game.next
        /\ locks.pc[u] \in {"Lock", "RLock"}

\* the positions at which a task calls a getter of the engine
GetterPcs == {"IsGameOver", "IsPlaying", "IsGameOver2", "GetState", "GetScore", "GetLevel",
              "GetLines"}

\* task t makes the read it stands at
ReadsNow(t) ==
    /\ locks.pc[t] \in GetterPcs
    /\ locks'.pc[t] # locks.pc[t] \/ locks'.left[t] # locks.left[t]

\* C30: every read of engine state by the reader, the ticker, the builder
\* of the game_over frame and the admin fan-out (state, score, level,
\* lines) is made under the engine's lock, so none of them happens while a
\* mutation of the engine is in progress.
C30_ReadsUnderLock ==
    [][\A t \in Tasks : ReadsNow(t) => locks.mu.w = ""]_vars

\* ------------------------------------- the tasks of a session (C31..C33)
\* C31: at most one task writes to the transport of a session: every frame
\* that goes out, the close frames included, is written by the writer task
\* (writePump), whatever the interleaving of writer, reader and heartbeat.
C31_OneWriter ==
    [][ Nxt.closes # Cur.closes => (Cur.writer = "select" /\ Nxt.writer = "exit") ]_vars

\* C32: as long as the session is live, every expiry of the ping timer
\* enqueues a ping frame (room in the queue provided) and re-arms the timer
\* for another PingInterval, whichever task receives the expiry.
C32_PingRearmed ==
    [][ (Alive(Cur) /\ Cur.pingC /\ ~Nxt.pingC) =>
            /\ Nxt.pingAt = now + PingInterval
            /\ Len(Cur.send) < QueueCap =>
                 \E by \in {"writer", "heartbeat"} : Enqueues(NewPingMessage(now, by)) ]_vars

\* C33: once a session is torn down (transport closed, queue closed, out
\* of the live set) and its reader and writer have returned, its heartbeat
\* task has returned too and neither of its timers is armed.
C33_NothingOutlives ==
    (/\ Cur.conn = "closed" /\ Cur.sendClosed /\ 1 \notin server.clients
     /\ Cur.reader = "done" /\ Cur.writer = "done")
       => /\ Cur.heartbeat = "done"
          /\ Cur.pingAt = Stopped
          /\ Cur.timeoutAt = Stopped

\* ------------------------------------------ the outbound queue (C34..C37)
\* the step is one in which a task of the session calls sendError,
\* sendState, sendGameOver or sendPing
ProducerStep ==
    \/ Cur.reader = "handle" /\ Nxt.reader = "read"
    \/ Cur.reader = "state" /\ Nxt.reader # "state"
    \/ Cur.reader = "gameover" /\ Nxt.reader # "gameover"
    \/ Cur.writer = "t_state" /\ Nxt.writer # "t_state"
    \/ Cur.writer = "t_gameover" /\ Nxt.writer # "t_gameover"
    \/ Cur.pingC /\ ~Nxt.pingC

\* a task that stands before one of these calls can make it
CanProduce ==
    /\ Cur.reader = "state" => ENABLED ReaderState(1)
    /\ Cur.reader = "gameover" => ENABLED ReaderGameOver(1)
    /\ Cur.reader = "handle" => ENABLED ReaderHandle(1)
    /\ Cur.writer = "t_state" => ENABLED WriterState(1)
    /\ Cur.writer = "t_gameover" => ENABLED WriterGameOver(1)

\* C34: enqueuing a frame (state, error, ping, game_over) on the outbound
\* queue never blocks the producer: with the queue at its capacity the new
\* frame is discarded, the frames queued stay as they are and in order, and
\* the producer goes on; the queue never holds more than its capacity.
C34_DropOnFull ==
    /\ [](Len(Cur.send) <= QueueCap /\ CanProduce)
    /\ [][ ProducerStep =>
             IF Cur.sendClosed \/ Len(Cur.send) >= QueueCap
             THEN Nxt.send = Cur.send
             ELSE /\ Len(Nxt.send) = Len(Cur.send) + 1
                  /\ SubSeq(Nxt.send, 1, Len(Cur.send)) = Cur.send
                  /\ Nxt.send[Len(Nxt.send)].type \in {"state", "error", "ping", "game_over"}
       ]_vars

\* the ticker has just called sendState on a full queue: it has passed the
\* call, the queue holds its capacity and none of the frames is the
\* ticker's (the writer task, the only consumer, is the one in the tick)
C34_Witness ==
    /\ Cur.writer = "t_over"
    /\ ~Cur.sendClosed
    /\ Len(Cur.send) = QueueCap
    /\ \A i \in 1..Len(Cur.send) : Cur.send[i].by # "ticker"

\* C35: an error frame or a game_over frame is never discarded because the
\* outbound queue is full; only state frames may be dropped on a full queue.
C35_ErrorAndGameOverKept ==
    [][ /\ (Cur.reader = "handle" /\ Nxt.reader = "read" /\ ~Cur.sendClosed) =>
              (Len(Nxt.send) = Len(Cur.send) + 1 /\ Nxt.send[Len(Nxt.send)].type = "error")
        /\ ((\/ Cur.reader = "gameover" /\ Nxt.reader # "gameover"
             \/ Cur.writer = "t_gameover" /\ Nxt.writer # "t_gameover") /\ ~Cur.sendClosed) =>
              (Len(Nxt.send) = Len(Cur.send) + 1 /\ Nxt.send[Len(Nxt.send)].type = "game_over")
      ]_vars

\* ---- the end of a session (C36)
\* one session whose end is watched: its engine is playing and the client
\* sends commands and may go away in the session's first instants, or its
\* engine is paused and the client is silent, or answers one ping, while
\* the timers run; the server may be shut down at any moment
InitTeardown ==
    /\ \/ server = [clients |-> {1}, hub |-> 0, down |-> FALSE, crashed |-> FALSE,
                    panic |-> "",
                    sessions |-> 1 :> Established(NewClient(
                        New(<< TypeI, TypeO, TypeT, TypeS, TypeZ, TypeJ, TypeL >>, 0), 0,
                        [frames |-> {Frame("move_left"), Frame("bogus")},
                         left |-> MaxEvents, pong |-> "none", due |-> 0,
                         leaves |-> TRUE]))]
       \/ \E n \in 0..1 :
            server = [clients |-> {1}, hub |-> 0, down |-> FALSE, crashed |-> FALSE,
                      panic |-> "",
                      sessions |-> 1 :> Established(NewClient(
                          Pause(New(<< TypeI, TypeO, TypeT, TypeS, TypeZ, TypeJ, TypeL >>, 0)), 0,
                          [frames |-> {}, left |-> n, pong |-> "app", due |-> 0,
                           leaves |-> FALSE]))]
    /\ game = New(<< TypeI, TypeO, TypeT, TypeS, TypeZ, TypeJ, TypeL >>, 0)
    /\ now = 0
    /\ last = NoOp
    /\ steps = 0
    /\ clear = ClearIdle
    /\ Apart

\* the clock moves on while the engine is paused, when a tick does nothing
TeardownClock ==
    /\ Cur.game.state = StatePaused
    /\ HeartbeatClock

NextTeardown ==
    \/ ReaderRead(1)
    \/ ReaderReadPong(1)
    \/ ReaderHandle(1)
    \/ ReaderApply(1)
    \/ ReaderState(1)
    \/ ReaderOver(1)
    \/ ReaderFail(1)
    \/ ReaderUnregister(1)
    \/ ReaderClose(1)
    \/ HubUnregister
    \/ TickerFire(1)
    \/ WriterTake(1)
    \/ WriterWrite(1)
    \/ WriterTick(1)
    \/ WriterUpdate(1)
    \/ WriterState(1)
    \/ WriterOver(1)
    \/ WriterClosed(1)
    \/ WriterPing(1)
    \/ WriterExit(1)
    \/ PingTimerFire(1)
    \/ TimeoutTimerFire(1)
    \/ HeartbeatPing(1)
    \/ HeartbeatTimeout(1)
    \/ Disconnect(1)
    \/ Shutdown
    \/ TeardownClock

SpecTeardown == InitTeardown /\ [][NextTeardown]_vars

\* C36: however the exit of the reader, the heartbeat timeout and the
\* shutdown of the server interleave, the outbound queue of a session is
\* closed at most once, so that no task panics on closing it again, and an
\* enqueue by any task after the queue was closed is absorbed: the frame is
\* lost, the queue stays closed and empty of it, and the task goes on to
\* its next step without ending the server.
C36_ClosedOnce ==
    /\ [](server.panic # "close of closed channel")
    /\ [][ /\ Cur.sendClosed => Nxt.sendClosed
           /\ (ProducerStep /\ Cur.sendClosed) =>
                 /\ Nxt.send = Cur.send
                 /\ server'.crashed = server.crashed
                 /\ Nxt.reader # Cur.reader => Nxt.reader \in {"read", "over"}
                 /\ Nxt.writer # Cur.writer => Nxt.writer = "t_over"
       ]_vars

\* the server was shut down while the reader stood before sendState; the
\* reader made the call on the closed queue, found its transport closed and
\* unregistered, and the hub has handled that without closing again
C36_Witness ==
    /\ server.down /\ ~server.crashed
    /\ Cur.sendClosed
    /\ Cur.reader = "done"
    /\ server.hub = 0
    /\ Cur.env.left < MaxEvents

\* the heartbeat timed out and the server was shut down afterwards
C36_WitnessTimeout ==
    /\ server.down /\ ~server.crashed
    /\ Cur.sendClosed
    /\ Cur.heartbeat = "done"
    /\ Cur.reader = "done"

\* ---- one game_over frame for a finished game (C37)
\* C37: for each engine that reaches GameOver at most one game_over frame is
\* enqueued, however a command dispatched by the reader and a concurrent
\* tick interleave.
C37_OneGameOverFrame == Cur.overs <= 1

\* ---- the send queue and the reconnect of the reference client (C38..C40)
\* C38: the send queue of the reference client is closed at most once and
\* is never sent on after it was closed, however Close, Send, a read failure
\* of the listen task, the pong that answers a ping, and a reconnect
\* interleave.
C38_SendQueueClosedOnce ==
    client.cause \notin {"close of closed channel", "listen: send on closed channel",
                         "Send: send on closed channel"}

\* the client stands connected on a connection that a reconnect has made
\* and that has not failed
Reconnected ==
    /\ ~client.crashed
    /\ client.conn > 1
    /\ client.connected
    /\ ~Broken(client, client.conn)

\* C39: after an automatic reconnect that succeeded the client has a running
\* writer task and stays connected until the transport fails again or Close
\* is called: the reconnect does not by itself lead to a disconnect, and a
\* Send made after it hands its frame to the writer.
C39_ReconnectHolds ==
    [][ (Reconnected /\ client'.reconnect = client.reconnect) =>
            /\ ~client'.crashed
            /\ client'.connected
            /\ client'.writer.pc = "select" ]_vars

\* C40: once Close has returned the client never becomes connected again:
\* no reconnect attempt that is pending or under way at the time of Close,
\* and none started later, makes a new connection.
C40_ClosedStaysClosed == ~client.reconnect => ~client.connected

====
